---------------------------- MODULE Spec2Model ----------------------------
(***************************************************************************)
(* Model of the 3D plasma heat-flux core of HEAT (plasma3DClass.py):       *)
(*   - class heatflux3D: configuration, trace data, masks, the Layer       *)
(*     (Eich) and conductive deposition models, power-balance scaling;     *)
(*   - class plasma3D: the driver of the external field-line tracer.       *)
(*                                                                         *)
(* Representation of numbers.  Python/numpy floats are modelled as binary   *)
(* floating-point numbers <<m, e>> of value m * 2^e with a mantissa of      *)
(* MantBits bits, rounded to nearest after every operation, with the IEEE  *)
(* specials NaN, +Inf, -Inf and no underflow.  Quantities that the         *)
(* code only compares or looks up are kept in fixed point:                 *)
(*   psi (normalized flux)  in 1e-3           (1.0   -> 1000)              *)
(*   Lc  (connection length) in m = 1e-3 km   (0.075 -> 75)                *)
(*   R   (major radius)     in mm                                          *)
(*   T   (temperature)      in 0.1 keV                                     *)
(* The transcendental functions (Tprofile, eich_profile) are tabulated     *)
(* from their closed forms on these lattices; a value that is positive     *)
(* (negative) in the code is never rounded to zero, so that the places     *)
(* where the code produces 0, NaN or Inf are the places where the model    *)
(* does.                                                                   *)
(***************************************************************************)
EXTENDS Integers, Sequences, FiniteSets, TLC

(***************************************************************************)
(* Bounds of the model                                                     *)
(***************************************************************************)
\* largest number of heatflux calls between two refreshes of the trace data
MaxCalls == 2
\* number of samples of the midplane calibration grid of scale_layer (1000 in the code)
NCal == 9
\* number of samples of the psi grid of scale_conduct (1000 in the code)
NCond == 8
\* largest number of launchLaminar calls of the driver
MaxLaunch == 2
\* the restarts of the tracer by one wait2finish call that are followed
MaxRestart == 3

(***************************************************************************)
(* Floats: <<m, e>> is m * 2^e with MinMant <= |m| < MaxMant, or one of    *)
(* the values Zero, NaN, PosInf, NegInf                                    *)
(***************************************************************************)
\* the bits of the mantissa (53 in numpy's float64)
MantBits == 12
MinMant == 2 ^ (MantBits - 1)
MaxMant == 2 ^ MantBits

Zero == <<0, 0>>
NaN == <<0, 1>>
PosInf == <<1, 0>>
NegInf == <<-1, 0>>

\* F applied to values that are computed once and used more than once
Let(v, F(_)) == F(v)
Let2(v, w, F(_, _)) == F(v, w)
Let3(u, v, w, F(_, _, _)) == F(u, v, w)

Abs(x) == IF x < 0 THEN -x ELSE x
Sgn(x) == IF x < 0 THEN -1 ELSE IF x = 0 THEN 0 ELSE 1

IsNaN(a) == a = NaN
IsInf(a) == a = PosInf \/ a = NegInf
IsFinite(a) == ~IsNaN(a) /\ ~IsInf(a)

RECURSIVE BitLenIn(_, _, _)
\* the number of bits of n > 0, known to lie in lo..hi, by halving the range
BitLenIn(n, lo, hi) ==
    IF lo = hi THEN lo
    ELSE LET mid == (lo + hi) \div 2
         IN  IF n < 2 ^ mid THEN BitLenIn(n, lo, mid) ELSE BitLenIn(n, mid + 1, hi)

BitLen(n) == BitLenIn(n, 1, 30)

\* n * 2^e with the sh low bits of n rounded away, to nearest
Round(n, e, sh) ==
    Let((Abs(n) + 2 ^ (sh - 1)) \div 2 ^ sh, LAMBDA r :
        IF r = MaxMant THEN <<Sgn(n) * MinMant, e + sh + 1>>
        ELSE <<Sgn(n) * r, e + sh>>)

\* the float nearest to n * 2^e
Norm(n, e) ==
    IF n = 0 THEN Zero
    ELSE IF MinMant <= Abs(n) /\ Abs(n) < MaxMant THEN <<n, e>>
    ELSE Let(BitLen(Abs(n)), LAMBDA k :
             IF k <= MantBits
             THEN <<n * 2 ^ (MantBits - k), e - (MantBits - k)>>
             ELSE Round(n, e, k - MantBits))

\* float(n) of an integer n
Rat(n) == Norm(n, 0)

RNeg(a) == IF IsNaN(a) THEN NaN ELSE <<-a[1], a[2]>>

RAdd(a, b) ==
    IF IsNaN(a) \/ IsNaN(b) THEN NaN
    ELSE IF IsInf(a) THEN (IF IsInf(b) /\ b # a THEN NaN ELSE a)
    ELSE IF IsInf(b) THEN b
    ELSE IF a = Zero THEN b
    ELSE IF b = Zero THEN a
    ELSE LET big == IF a[2] >= b[2] THEN a ELSE b
             small == IF a[2] >= b[2] THEN b ELSE a
             diff == big[2] - small[2]
         IN  IF diff > MantBits + 1 THEN big
             ELSE Norm(big[1] * 2 ^ diff + small[1], small[2])

RSub(a, b) == RAdd(a, RNeg(b))

RMul(a, b) ==
    IF IsNaN(a) \/ IsNaN(b) THEN NaN
    ELSE IF IsInf(a) \/ IsInf(b)
         THEN (IF a = Zero \/ b = Zero THEN NaN
               ELSE IF Sgn(a[1]) = Sgn(b[1]) THEN PosInf ELSE NegInf)
    ELSE Norm(a[1] * b[1], a[2] + b[2])

\* numpy division: x/0 is +-inf, 0/0 is nan (a warning, no exception)
RDiv(a, b) ==
    IF IsNaN(a) \/ IsNaN(b) THEN NaN
    ELSE IF IsInf(b) THEN (IF IsInf(a) THEN NaN ELSE Zero)
    ELSE IF b = Zero
         THEN (IF a = Zero THEN NaN ELSE IF a[1] > 0 THEN PosInf ELSE NegInf)
    ELSE IF IsInf(a) THEN (IF Sgn(a[1]) = Sgn(b[1]) THEN PosInf ELSE NegInf)
    ELSE Norm(Sgn(a[1]) * Sgn(b[1]) * ((Abs(a[1]) * 2 ^ (MantBits + 1)) \div Abs(b[1])),
              a[2] - b[2] - (MantBits + 1))

\* the float of n/d for integers n and d
Frac(n, d) == RDiv(Rat(n), Rat(d))

\* a < b; every comparison with NaN is false
RLt(a, b) ==
    IF IsNaN(a) \/ IsNaN(b) THEN FALSE
    ELSE IF IsInf(a) \/ IsInf(b)
         THEN (IF a = b THEN FALSE ELSE (a = NegInf \/ b = PosInf))
    ELSE IF Sgn(a[1]) # Sgn(b[1]) THEN Sgn(a[1]) < Sgn(b[1])
    ELSE IF a[1] > 0 THEN a[2] < b[2] \/ (a[2] = b[2] /\ a[1] < b[1])
    ELSE IF a[1] < 0 THEN a[2] > b[2] \/ (a[2] = b[2] /\ a[1] < b[1])
    ELSE FALSE

\* the finite float a times the integer k, rounded down to an integer
Floor(a, k) ==
    IF a[2] >= 0 THEN a[1] * k * 2 ^ a[2] ELSE (a[1] * k) \div 2 ^ (-a[2])

\* a <= b; every comparison with NaN is false
RLe(a, b) == ~IsNaN(a) /\ ~IsNaN(b) /\ (a = b \/ RLt(a, b))

RECURSIVE SumFrom(_, _)
\* sum of the floats q[i..Len(q)]
SumFrom(a, i) == IF i > Len(a) THEN Zero ELSE RAdd(a[i], SumFrom(a, i + 1))

RECURSIVE MaxFrom(_, _, _)
\* numpy max of q[i..] starting from m: NaN propagates
MaxFrom(a, i, m) ==
    IF i > Len(a) THEN m
    ELSE IF IsNaN(a[i]) \/ IsNaN(m) THEN NaN
    ELSE MaxFrom(a, i + 1, IF RLt(m, a[i]) THEN a[i] ELSE m)

\* q.max() of a non-empty array
RMax(a) == MaxFrom(a, 2, a[1])

\* the subsequence of the entries selected by a boolean mask (numpy q[mask])
RECURSIVE SelectIdx(_, _, _)
SelectIdx(mask, i, acc) ==
    IF i > Len(mask) THEN acc
    ELSE SelectIdx(mask, i + 1, IF mask[i] THEN Append(acc, i) ELSE acc)

Where(mask) == SelectIdx(mask, 1, <<>>)
Take(a, idx) == [k \in 1..Len(idx) |-> a[idx[k]]]

\* a with the entries selected by mask replaced, in order, by the entries of b
\* (numpy a[mask] = b)
Put(a, mask, b) ==
    Let(Where(mask), LAMBDA idx :
        [i \in 1..Len(a) |->
            IF mask[i] THEN b[CHOOSE k \in 1..Len(idx) : idx[k] = i] ELSE a[i]])

\* np.linspace(a, b, n) on the fixed-point lattice (samples rounded down)
Linspace(a, b, n) ==
    [i \in 1..n |-> IF n = 1 THEN a ELSE a + ((i - 1) * (b - a)) \div (n - 1)]

\* index of the first smallest entry of an integer array (numpy argmin)
ArgMin(a) ==
    CHOOSE i \in 1..Len(a) :
        /\ \A j \in 1..Len(a) : a[i] <= a[j]
        /\ \A j \in 1..(i - 1) : a[i] < a[j]

Clamp(x, lo, hi) == IF x < lo THEN lo ELSE IF x > hi THEN hi ELSE x

(***************************************************************************)
(* The equilibrium collaborator (ep): an axisymmetric equilibrium whose    *)
(* normalized flux along the midplane grows linearly with the distance     *)
(* from the magnetic axis, 1e-3 of psi per mm.  Lengths in mm.             *)
(***************************************************************************)
\* ep.g['RmAxis']
RmAxis == 2000
\* ep.g['R1'], the inner edge of the EFIT grid
R1 == 800
\* ep.g['Xdim'], the width of the EFIT grid
Xdim == 2500

\* ep.psiFunc.ev(R, ZmAxis), in 1e-3
psiFunc(R) == Abs(R - RmAxis)

\* the equilibria an instance may be given: ep.g['psiAxis'], ep.g['psiSep'] (in Wb);
\* the flux grows or falls from the axis to the separatrix with the sign convention
EqSet == { [psiAxis |-> 0, psiSep |-> 1], [psiAxis |-> 1, psiSep |-> 0] }

(***************************************************************************)
(* General functions                                                       *)
(***************************************************************************)
\* Tprofile(psi, Tped = 2) in 0.1 keV for psi = 0.850, 0.855, ..., 1.400; it is 0
\* at psi = 1.2 exactly and negative beyond
TprofileTab ==
    << 21, 21, 21, 21, 21, 21, 21, 21, 21, 21, 21, 21, 21, 21, 20, 20, 20, 20,
       20, 19, 19, 18, 17, 15, 13, 11, 9, 7, 5, 4, 3, 2, 2, 2, 2, 1, 1, 1, 1, 1,
       1, 1, 1, 1, 1, 1, 1, 1, 1, 1, 1, 1, 1, 1, 1, 1, 1, 1, 1, 1, 1, 1, 1, 1, 1,
       1, 1, 1, 1, 1, 0, -1, -1, -1, -1, -1, -1, -1, -1, -1, -1, -1, -1, -1, -1,
       -1, -1, -1, -1, -1, -1, -1, -1, -1, -1, -1, -1, -1, -1, -1, -1, -1, -1,
       -1, -1, -1, -1, -1, -1, -1, -1 >>

\* the generic temperature profile of the pedestal Tped = 2 keV, in 0.1 keV; psi in
\* 1e-3.  Below the table the profile keeps rising (it is only read there to be
\* overwritten), above it the profile tends to -0.33 keV.
Tprofile(psi) ==
    IF psi < 850 THEN TprofileTab[1]
    ELSE IF psi > 1400 THEN -3
    ELSE TprofileTab[(psi - 850) \div 5 + 1]

\* floor(t^3.5) for t = 0..21
Pow35Tab ==
    << 0, 1, 11, 46, 128, 279, 529, 907, 1448, 2187, 3162, 4414, 5985, 7921,
       10267, 13071, 16384, 20256, 24743, 29897, 35777, 42439 >>

\* T**3.5 of numpy: nan for a negative base
Pow35(t) == IF t < 0 THEN NaN ELSE Rat(Pow35Tab[t + 1])

\* 1000 * eich_profile(s0 + d mm, lq = 5, S = 2, s0, q0 = 1) for d = -4..38
EichTab52 ==
    << 2, 15, 70, 205, 405, 566, 608, 552, 465, 383, 313, 257, 210, 172, 141,
       115, 94, 77, 63, 52, 42, 35, 28, 23, 19, 16, 13, 10, 9, 7, 6, 5, 4, 3, 3,
       2, 2, 1, 1, 1, 1, 1, 1 >>

\* 1000 * eich_profile(s0 + d mm, lq = 2, S = 2, s0, q0 = 1) for d = -4..15
EichTab22 ==
    << 2, 13, 59, 167, 308, 389, 359, 264, 171, 105, 64, 39, 24, 14, 9, 5, 3, 2,
       1, 1 >>

\* the tables as floats
EichF52 == [i \in 1..Len(EichTab52) |-> Frac(EichTab52[i], 1000)]
EichF22 == [i \in 1..Len(EichTab22) |-> Frac(EichTab22[i], 1000)]

\* 2^(-t/16) for t >= 0
Pow2Neg(t) ==
    Norm(<<4096, 3922, 3756, 3597, 3444, 3298, 3158, 3025, 2896, 2774, 2656, 2543,
           2435, 2332, 2233, 2139>>[(t % 16) + 1], -12 - (t \div 16))

\* 0.5*exp(b^2 - d/a)*erfc(b - d/c) for d = s - s0 in mm and fx = 1.  Around the
\* peak it is read from the table.  To the right erfc is 2 and the value falls as
\* exp(b^2 - d/lq); to the left it falls as exp(-d^2/S^2)/(2*sqrt(pi)*(b - d/S))
\* until erfc underflows to exactly 0, from d = -55 (lq = 5) or -54 (lq = 2) on.
\* 16*log2(e) is 23.083.
EichShape(d, lq, S_) ==
    Let(IF lq = 5 THEN EichF52 ELSE EichF22, LAMBDA tab :
        IF d <= (IF lq = 5 THEN -55 ELSE -54) THEN Zero
        ELSE IF d < -4 THEN Pow2Neg((d * d * 23083) \div (1000 * S_ * S_) + 53)
        ELSE IF d + 5 > Len(tab)
        THEN Pow2Neg((d * 23083) \div (1000 * lq) - (IF lq = 5 THEN 1 ELSE 6))
        ELSE tab[d + 5])

\* eich_profile(s, lq, S, s0, q0, qBG, fx = 1): s, s0 in mm, lq and S in mm
eich_profile(s, lq, S_, s0, q0, qBG_) ==
    RAdd(RMul(q0, EichShape(s - s0, lq, S_)), qBG_)

\* index of the first largest entry of a[lo..hi], an array of floats (numpy argmax:
\* the first nan if there is one), by halving the range
RECURSIVE RArgMaxIn(_, _, _)
RArgMaxIn(a, lo, hi) ==
    IF lo = hi THEN lo
    ELSE Let2(RArgMaxIn(a, lo, (lo + hi) \div 2),
              RArgMaxIn(a, (lo + hi) \div 2 + 1, hi), LAMBDA l, r :
             Let2(a[l], a[r], LAMBDA al, ar :
                 IF IsNaN(al) THEN l
                 ELSE IF IsNaN(ar) \/ RLt(al, ar) THEN r
                 ELSE l))

RArgMax(a) == RArgMaxIn(a, 1, Len(a))

\* 2*np.pi
TwoPi == Frac(44, 7)

(***************************************************************************)
(* scipy.integrate.simps(y, x) with its default even = 'avg'; x are        *)
(* integers (fixed point), y floats                                        *)
(***************************************************************************)
\* Simpson's rule on the two intervals x[i], x[i+1], x[i+2] of unequal width
SimpsPair(y, x, i) ==
    Let2(Rat(x[i + 1] - x[i]), Rat(x[i + 2] - x[i + 1]), LAMBDA h0, h1 :
    Let3(RAdd(h0, h1), RMul(h0, h1), RDiv(h0, h1), LAMBDA hsum, hprod, h0divh1 :
        RMul(RDiv(hsum, Rat(6)),
             RAdd(RAdd(RMul(y[i], RSub(Rat(2), RDiv(Rat(1), h0divh1))),
                       RMul(y[i + 1], RDiv(RMul(hsum, hsum), hprod))),
                  RMul(y[i + 2], RSub(Rat(2), h0divh1))))))

RECURSIVE BasicSimps(_, _, _, _)
\* _basic_simps: the pairs of intervals starting at a, a + 2, ... below b
BasicSimps(y, x, a, b) ==
    IF a + 2 > b THEN Zero
    ELSE RAdd(SimpsPair(y, x, a), BasicSimps(y, x, a + 2, b))

Trapz(y, x, i) == RMul(Frac(x[i + 1] - x[i], 2), RAdd(y[i], y[i + 1]))

simps(y, x) ==
    Let(Len(y), LAMBDA n :
        IF n % 2 = 1 THEN BasicSimps(y, x, 1, n)
        ELSE RAdd(RDiv(RAdd(BasicSimps(y, x, 1, n - 1), BasicSimps(y, x, 2, n)), Rat(2)),
                  RDiv(RAdd(Trapz(y, x, n - 1), Trapz(y, x, 1)), Rat(2))))

(***************************************************************************)
(* Inputs                                                                  *)
(***************************************************************************)
\* the attribute does not exist (yet) / the attribute is None: the values of model
\* and HFS besides the tags and "True" / "False".  An array attribute that does not
\* exist or is None is the empty sequence, the equilibrium that is None is NoEp.
Unset == "unset"
None == "None"
NoEp == [psiAxis |-> 0, psiSep |-> 0]

\* setHFctl(): the defaults of its signature
DefaultCtl ==
    [Lcmin |-> 75, lcfs |-> 970, lqCN |-> 5, S |-> 2, P |-> 10,
     coreRadFrac |-> Zero, qBG |-> Zero, kappa |-> 2000]

\* another configuration: longer Lcmin, lq = S, half of the power radiated in the
\* core, a background flux
AltCtl ==
    [Lcmin |-> 250, lcfs |-> 970, lqCN |-> 2, S |-> 2, P |-> 10,
     coreRadFrac |-> Frac(1, 2), qBG |-> Rat(1), kappa |-> 2000]

CtlArgs == {DefaultCtl, AltCtl}

\* the model tags heatflux knows
LayerTags == {"Layer", "layer", "eich", "Eich", "heuristic"}
ConductTags == {"conduct", "conductive"}

\* the input files: present with a configuration and a model entry, or missing
InputFiles ==
    { [found |-> TRUE, ctl |-> AltCtl, model |-> "Layer"],
      [found |-> TRUE, ctl |-> DefaultCtl, model |-> "conductive"],
      [found |-> TRUE, ctl |-> AltCtl, model |-> "conductive"],
      [found |-> TRUE, ctl |-> DefaultCtl, model |-> "bogus"],
      [found |-> FALSE, ctl |-> DefaultCtl, model |-> None] }

\* the batches of trace points, index-aligned (psimin in 1e-3, Lc in m):
\* psimin = [0.9, 1.0, 10, 1.05] with Lc = [0.05, 0.2, 0.01, 0.3] km; a point inside
\* the separatrix whose Lc lies between the two Lcmin, and a point in the SOL; one
\* point that did not converge; two points of the SOL around one that did not
\* converge
Batches ==
    { << <<900, 50>>, <<1000, 200>>, <<10000, 10>>, <<1050, 300>> >>,
      << <<990, 100>>, <<1005, 300>> >>,
      << <<10000, 10>> >>,
      << <<1005, 300>>, <<10000, 10>>, <<1020, 200>> >> }

\* the batches of the Layer model: those of Batches and one of two long field
\* lines inside the LCFS, a point outside of it by less than a step of the
\* peak-locating grid of set_layer, and a point in the SOL
LayerBatches ==
    Batches \cup {<< <<950, 300>>, <<930, 400>>, <<971, 300>>, <<1005, 300>> >>}

\* divertor codes of the PFC input file, as sequences of characters
DivCodes == { <<"O">>, <<"I">>, <<"L", "O">>, <<"X">> }

\* the fraction of Psol that goes to the PFC
PowerFracs == { Frac(1, 2) }

(***************************************************************************)
(* class heatflux3D: the pure parts                                        *)
(***************************************************************************)
\* psimin == 10 marks a point the tracer could not compute, in 1e-3
Sentinel == 10000
\* psi = 1.0, the separatrix, in 1e-3
PsiSep == 1000

\* a mask that marks every point as good, the sentinel included
allGood(n, psimin_) == [i \in 1..n |-> TRUE]

\* isGoodPoint: True for a point to use, False for a point that failed in the tracer
isGoodPoint(n, psimin_) == [i \in 1..n |-> ~(psimin_[i] = Sentinel)]

\* a mask of the points inside the separatrix, whatever their connection length
insideSeparatrix(n, psimin_, Lc_, Lcmin_) == [i \in 1..n |-> psimin_[i] < PsiSep]

\* isPFR: True for a point in the private flux region
isPFR(n, psimin_, Lc_, Lcmin_) ==
    [i \in 1..n |-> (psimin_[i] < PsiSep) /\ (Lc_[i] < Lcmin_)]

\* map_R_psi: R(psi) at the midplane on the side HFS; the spline through the 100
\* samples of the linear flux function is that function's inverse, and it returns
\* the boundary value outside the sampled range
map_R_psi(psi, HFS_) ==
    Let(Clamp(psi, 0, psiFunc(IF HFS_ = "True" THEN R1 ELSE R1 + Xdim)), LAMBDA p :
        IF HFS_ = "True" THEN RmAxis - p ELSE RmAxis + p)

\* the samples of the peak-locating grid of set_layer over its psi range of 0.15:
\* 10000 in the code, 1.5e-5 apart, which is coarser than the floats the trace
\* points take; here 3 steps of the 1e-3 lattice of psi apart
NPeak == 51

\* set_layer up to qref.argmax(): the reference profile on the grid around s0 and
\* its peak
peak(lq, S_, lcfs_, lobes, HFS_) ==
    Let2(map_R_psi(IF lobes THEN lcfs_ ELSE PsiSep, HFS_),
         IF lobes THEN Linspace(lcfs_ - 50, lcfs_ + 100, NPeak)
         ELSE Linspace(950, 1100, NPeak), LAMBDA s0, grid :
    Let([i \in 1..NPeak |-> map_R_psi(grid[i], HFS_)], LAMBDA s :
    Let([i \in 1..NPeak |-> eich_profile(s[i], lq, S_, s0, Rat(1), Zero)], LAMBDA qref :
    Let(RArgMax(qref), LAMBDA idx :
        [s0 |-> s0, smax |-> s[idx], qmax |-> qref[idx]]))))

\* peak, computed once for the configurations of the model
peakTab ==
    [lq \in {c.lqCN : c \in CtlArgs}, S_ \in {c.S : c \in CtlArgs},
     lcfs_ \in {c.lcfs : c \in CtlArgs} \cup {PsiSep}, lobes \in BOOLEAN,
     HFS_ \in {"True", "False", None} |-> peak(lq, S_, lcfs_, lobes, HFS_)]

\* set_layer: the Eich profile at the points psi, with its peak moved to s0;
\* returns q/q.max()*q0 and qsep/q.max()*q0
set_layer(psi, lq, S_, lcfs_, q0, lobes, HFS_) ==
    Let3(Len(psi), peakTab[lq, S_, lcfs_, lobes, HFS_],
         IF HFS_ = "True" THEN -1 ELSE 1, LAMBDA n, pk, sgn :
    Let3([i \in 1..n |-> map_R_psi(psi[i], HFS_)], map_R_psi(PsiSep, HFS_),
         IF HFS_ = "True" THEN -pk.smax ELSE pk.s0 - (pk.smax - pk.s0),
         LAMBDA x, xsep, x0 :
    Let2([i \in 1..n |->
             IF lobes /\ psi[i] < lcfs_ THEN pk.qmax
             ELSE eich_profile(sgn * x[i], lq, S_, x0, Rat(1), Zero)],
         eich_profile(sgn * xsep, lq, S_, x0, Rat(1), Zero), LAMBDA qx, qsep :
    Let(RMax(qx), LAMBDA top :
        [q |-> [i \in 1..n |-> RMul(RDiv(qx[i], top), q0)],
         qsep |-> RMul(RDiv(qsep, top), q0)]))))

\* getq_layer: the layer profile with lobes, normalized to qmax = 1; the points of
\* the private flux region are evaluated again, anchored at the separatrix
getq_layer(psimin_, pfr_, lqCN_, S_, lcfs_, HFS_) ==
    Let(set_layer(psimin_, lqCN_, S_, lcfs_, Rat(1), TRUE, HFS_), LAMBDA main :
        IF \E i \in 1..Len(pfr_) : pfr_[i]
        THEN Put(main.q, pfr_,
                 set_layer(Take(psimin_, Where(pfr_)), lqCN_, S_, PsiSep, main.qsep,
                           FALSE, HFS_).q)
        ELSE main.q)

\* the R grid of scale_layer along the midplane, in mm
CalGrid(lq, S_, lcfs_, HFS_) ==
    Let(map_R_psi(lcfs_, HFS_), LAMBDA Rlcfs :
    Let2(IF HFS_ = "True"
         THEN (IF Rlcfs - 20 * lq < R1 THEN R1 ELSE Rlcfs - 20 * lq)
         ELSE (IF Rlcfs - 20 * S_ < RmAxis THEN RmAxis ELSE Rlcfs - 20 * S_),
         IF HFS_ = "True"
         THEN (IF Rlcfs + 20 * S_ > RmAxis THEN RmAxis ELSE Rlcfs + 20 * S_)
         ELSE (IF Rlcfs + 20 * lq > R1 + Xdim THEN R1 + Xdim ELSE Rlcfs + 20 * lq),
         LAMBDA Rmin, Rmax : Linspace(Rmin, Rmax, NCal)))

\* column 4 of the result file the external tracer writes for the midplane grid:
\* in the axisymmetric field psimin is the flux at the start point
TraceMidplane(R) == [i \in 1..Len(R) |-> psiFunc(R[i])]

\* the result files lam_hfs_mp.dat / lam_lfs_mp.dat the configurations can leave
MidplaneFiles ==
    {TraceMidplane(CalGrid(c.lqCN, c.S, c.lcfs, h)) : c \in CtlArgs, h \in {"True", "False"}}

\* the flux psi (in 1e-3 Wb) of the normalized flux psiN (in 1e-3)
FluxOf(psiN, eq) == psiN * (eq.psiSep - eq.psiAxis) + 1000 * eq.psiAxis

\* P0 = 2*np.pi * integ.simps(q_hat, psi), psi in 1e-3 Wb
Power(q_hat, psi) == RDiv(RMul(TwoPi, simps(q_hat, psi)), Rat(1000))

\* if P0 < 0: P0 = -P0; q0 = P/P0
PowerScale(P_, P0) == RDiv(P_, IF RLt(P0, Zero) THEN RNeg(P0) ELSE P0)

\* scale_layer from the point where the result file of the midplane trace has been
\* read (psimin is column 4 of that file) to P0
layerP0(psimin_, lq, S_, lcfs_, HFS_, eq) ==
    Let2(CalGrid(lq, S_, lcfs_, HFS_),
         ArgMin([i \in 1..Len(psimin_) |-> Abs(psimin_[i] - PsiSep)]), LAMBDA R, idx :
    Let2([i \in 1..Len(R) |->
             IF HFS_ = "True" THEN R[i] > R[idx] ELSE R[i] < R[idx]],
         set_layer(psimin_, lq, S_, lcfs_, Rat(1), TRUE, HFS_), LAMBDA mask, main :
    Let2(IF \E i \in 1..Len(mask) : mask[i]
         THEN Put(main.q, mask,
                  set_layer(Take(psimin_, Where(mask)), lq, S_, PsiSep,
                            main.qsep, FALSE, HFS_).q)
         ELSE main.q,
         [i \in 1..Len(R) |-> FluxOf(psiFunc(R[i]), eq)], LAMBDA q_hat, psi :
        Power(q_hat, psi))))

\* layerP0, computed once for the configurations and the files of the model
layerP0Tab ==
    [psimin_ \in MidplaneFiles, lq \in {c.lqCN : c \in CtlArgs},
     S_ \in {c.S : c \in CtlArgs}, lcfs_ \in {c.lcfs : c \in CtlArgs},
     HFS_ \in {"True", "False"}, eq \in EqSet |-> layerP0(psimin_, lq, S_, lcfs_, HFS_, eq)]

\* scale_layer(lq, S, P) with the result file of the midplane trace read
scale_layer(psimin_, lq, S_, P_, lcfs_, HFS_, eq) ==
    PowerScale(P_, layerP0Tab[psimin_, lq, S_, lcfs_, HFS_, eq])

\* self.fT: the temperature profile resolved by initializeHF3D; teProfileData is
\* None, so it is the generic profile of a 2 keV pedestal
fT(psi) == Tprofile(psi)

\* 1 + ratio*(1 - psi): a point of the private flux region treated as if in the SOL
PsiEff(ratio, psi) == PsiSep + Floor(ratio, PsiSep - psi)

\* (1e+3)**3.5/1e+6 for T in keV; for T in 0.1 keV it is (1e+2)**3.5/1e+6
UnitConv == 10

\* the formula with the default kappa = 2000 of the signature instead of the
\* argument
ConductQDefaultKappa(kappa_, L, T) ==
    RMul(RMul(RDiv(RMul(Frac(2, 7), Rat(2000)), L), RSub(Pow35(T), Pow35(0))),
         Rat(UnitConv))

\* 2.0/7.0 * kappa/L * (T**3.5 - T0**3.5) * (1e+3)**3.5/1e+6 with T0 = 0
ConductQ(kappa_, L, T) ==
    RMul(RMul(RDiv(RMul(Frac(2, 7), Rat(kappa_)), L), RSub(Pow35(T), Pow35(0))),
         Rat(UnitConv))

\* the profile with the two assignments to T in the other order: the clamp to the
\* LCFS value also at the points of the private flux region
getq_conductClampLast(psi, kappa_, L, pfr_, ratio, lcfs_) ==
    [i \in 1..Len(psi) |->
        ConductQ(kappa_, L,
                 IF psi[i] < lcfs_ THEN fT(lcfs_)
                 ELSE IF pfr_[i] THEN fT(PsiEff(ratio, psi[i]))
                 ELSE fT(psi[i]))]

\* getq_conduct(psi, kappa, T0 = 0, L, limit = True, pfr, ratio)
getq_conduct(psi, kappa_, L, pfr_, ratio, lcfs_) ==
    [i \in 1..Len(psi) |->
        ConductQ(kappa_, L,
                 IF pfr_[i] THEN fT(PsiEff(ratio, psi[i]))
                 ELSE IF psi[i] < lcfs_ THEN fT(lcfs_)
                 ELSE fT(psi[i]))]

\* scale_conduct up to P0: the profile on psiN in [0.85, 1.2]
conductP0(kappa_, L, ratio, eq) ==
    Let(Linspace(850, 1200, NCond), LAMBDA psiN :
    Let2([i \in 1..NCond |->
             ConductQ(kappa_, L,
                      IF psiN[i] < PsiSep THEN fT(PsiEff(ratio, psiN[i]))
                      ELSE fT(psiN[i]))],
         [i \in 1..NCond |-> FluxOf(psiN[i], eq)], LAMBDA q_hat, psi :
        Power(q_hat, psi)))

\* np.mean(Lc[psimin > lcfs])*1e3 in m; the mean of no value is nan
MeanLc(psimin_, Lc_, lcfs_) ==
    Let(Take(Lc_, Where([i \in 1..Len(psimin_) |-> psimin_[i] > lcfs_])), LAMBDA sel :
        RDiv(SumFrom([k \in 1..Len(sel) |-> Rat(sel[k])], 1), Rat(Len(sel))))

\* conductP0, computed once for the configurations and the batches of the model
conductP0Tab ==
    [kappa_ \in {c.kappa : c \in CtlArgs},
     L \in {MeanLc([i \in 1..Len(b) |-> b[i][1]], [i \in 1..Len(b) |-> b[i][2]], c.lcfs) :
               b \in LayerBatches, c \in CtlArgs},
     ratio \in {Frac(c.lqCN, c.S) : c \in CtlArgs}, eq \in EqSet |->
        conductP0(kappa_, L, ratio, eq)]

\* scale_conduct(P, kappa, L, ratio)
scale_conduct(P_, kappa_, L, ratio, eq) ==
    PowerScale(P_, conductP0Tab[kappa_, L, ratio, eq])

(***************************************************************************)
(* State                                                                   *)
(***************************************************************************)
VARIABLES
    \* heatflux3D: the configuration (setHFctl / the input file)
    Lcmin, lcfs, lqCN, S, P, coreRadFrac, qBG, kappa, model,
    \* heatflux3D: the equilibrium and the power into the SOL (initializeHF3D)
    ep, Psol,
    \* heatflux3D: the trace data, the masks and the flux field
    psimin, Lc, N, q, good, pfr, HFS,
    \* the result files lam_hfs_mp.dat and lam_lfs_mp.dat in inputDir
    mpFile,
    \* the outcome of the last call: "ok" or the exception it raised
    err,
    \* history: Lcmin as isPFR last read it; the number of heatflux calls since the
    \* last refresh of the trace data; the last call and, for a heatflux call, its
    \* arguments
    LcminRead, calls, op, argDiv, argPf,
    \* plasma3D: the points, the trace result, the boundary box, the MAFOT control
    \* variables, the M3D-C1 sources (paths, scales, phases), the arguments of the
    \* last launch
    p3d_R, p3d_psimin, p3d_Lc, bb, itt, mafot, C1Files, C1scales, C1phases, nproc, tag,
    \* the file m3dc1sup.in in inputDir
    supIn,
    \* the files in cwd: points3DHF.dat, _lamCTL.dat, m3dc1sup.in and the result
    \* files lam_<tag>.dat
    pointsFile, ctlFile, supFile, lamFile,
    \* the last invocation of the external tracer
    mpirun,
    \* history: the process count launchLaminar was asked for, the number of its calls
    argNproc, launches,
    \* history: the tag argument of the last call, Unset when that call takes none
    argTag,
    \* wait2finish: where the call is ("idle": no call in progress, "poll": in the
    \* loop on isProcessRunning, "check": at isComplete) and how often it has
    \* restarted the tracer
    waitPc, restarts,
    \* history: the arguments and the result of the last direct call of
    \* getq_conduct, <<>> when there was none
    probe

ctlVars == <<Lcmin, lcfs, lqCN, S, P, coreRadFrac, qBG, kappa, model>>
initVars == <<ep, Psol>>
dataVars == <<psimin, Lc, N, q, good, pfr, HFS>>
histVars == <<LcminRead, calls, op, argDiv, argPf>>
p3dVars ==
    <<p3d_R, p3d_psimin, p3d_Lc, bb, itt, mafot, C1Files, C1scales, C1phases, nproc, tag,
      supIn>>
cwdVars == <<pointsFile, ctlFile, supFile, lamFile>>
waitVars == <<waitPc, restarts>>
drvVars == <<p3dVars, cwdVars, mpirun, argNproc, launches, argTag, waitVars>>
hfVars == <<ctlVars, initVars, dataVars, mpFile, LcminRead, calls, argDiv, argPf,
           probe>>
vars == <<ctlVars, initVars, dataVars, mpFile, err, histVars, drvVars, probe>>

\* a flux field that keeps the length it has after construction
oneZero(n) == [i \in 1..1 |-> Zero]

\* np.zeros(n)
zeros(n) == [i \in 1..n |-> Zero]

\* heatflux3D.__init__
InitHF ==
    /\ Lcmin = 0 /\ lcfs = 0 /\ lqCN = 0 /\ S = 0 /\ P = 0
    /\ coreRadFrac = NaN /\ qBG = NaN /\ kappa = 0 /\ model = Unset
    /\ ep = NoEp /\ Psol = NaN
    /\ psimin = <<>> /\ Lc = <<>> /\ N = 1 /\ q = zeros(1)
    /\ good = <<>> /\ pfr = <<>> /\ HFS = None
    /\ mpFile = [t \in {"hfs_mp", "lfs_mp"} |-> <<>>]
    /\ err = "ok"
    /\ LcminRead = -1 /\ calls = 0 /\ op = "__init__" /\ argDiv = <<>> /\ argPf = Zero
    /\ probe = <<>>

\* a method of heatflux3D other than heatflux is the call; the driver is another
\* object
Called(name) ==
    op' = name /\ argDiv' = <<>> /\ argPf' = Zero /\ UNCHANGED <<drvVars, probe>>

\* the assignments of setHFctl
SetCtl(c, m) ==
    /\ Lcmin' = c.Lcmin /\ lcfs' = c.lcfs /\ lqCN' = c.lqCN /\ S' = c.S /\ P' = c.P
    /\ coreRadFrac' = c.coreRadFrac /\ qBG' = c.qBG /\ kappa' = c.kappa
    /\ model' = m

\* setHFctl(Lcmin, lcfs, lqCN, S, P, coreRadFrac, qBG, kappa): model becomes None
setHFctl(c) ==
    /\ SetCtl(c, None)
    /\ err' = "ok" /\ Called("setHFctl")
    /\ UNCHANGED <<initVars, dataVars, mpFile, LcminRead, calls>>

\* read_input_file(file): the variables of an existing file (f.found) are set, a
\* missing file gives the defaults of setHFctl
read_input_file(f) ==
    /\ IF f.found THEN SetCtl(f.ctl, f.model) ELSE SetCtl(DefaultCtl, None)
    /\ err' = "ok" /\ Called("read_input_file")
    /\ UNCHANGED <<initVars, dataVars, mpFile, LcminRead, calls>>

\* initializeHF3D(ep, inputFile): without an input file, or with a missing one, the
\* defaults are set
initializeHF3D(eq, f) ==
    /\ ep = NoEp
    /\ ep' = eq
    /\ IF f.found THEN SetCtl(f.ctl, f.model) ELSE SetCtl(DefaultCtl, None)
    /\ Psol' = RMul(RSub(Rat(1), coreRadFrac'), Rat(P'))
    /\ err' = "ok" /\ Called("initializeHF3D")
    /\ UNCHANGED <<dataVars, mpFile, LcminRead, calls>>

\* updateLaminarData(psimin, Lc): a batch of index-aligned (psimin, Lc)
updateLaminarData(b) ==
    LET n == Len(b)
        ps == [i \in 1..n |-> b[i][1]]
        lc == [i \in 1..n |-> b[i][2]]
    IN  /\ psimin' = ps /\ Lc' = lc /\ N' = n /\ q' = zeros(n)
        /\ good' = isGoodPoint(n, ps)
        /\ IF model = Unset
           THEN /\ pfr' = pfr /\ LcminRead' = LcminRead
                /\ err' = "AttributeError"
           ELSE /\ pfr' = isPFR(n, ps, lc, Lcmin) /\ LcminRead' = Lcmin
                /\ err' = "ok"
        /\ calls' = 0 /\ Called("updateLaminarData")
        /\ UNCHANGED <<ctlVars, initVars, HFS, mpFile>>

\* 'O' in DivCode / 'I' in DivCode
Contains(code, ch) == \E i \in 1..Len(code) : code[i] = ch

\* the side of a divertor code that is exactly 'O' or exactly 'I'
SideOfExact(DivCode) ==
    IF DivCode = <<"O">> THEN "False"
    ELSE IF DivCode = <<"I">> THEN "True"
    ELSE None

\* the side the divertor code selects: an Outer divertor is on the low-field side,
\* an Inner divertor on the high-field side; None when the code names neither
SideOf(DivCode) ==
    IF Contains(DivCode, "O") THEN "False"
    ELSE IF Contains(DivCode, "I") THEN "True"
    ELSE None

\* the tag of the midplane trace of scale_layer
TagOf(hfs) == IF hfs = "True" THEN "hfs_mp" ELSE "lfs_mp"

\* q *= q0
Scaled(qm, q0) == [i \in 1..Len(qm) |-> RMul(qm[i], q0)]

\* self.q[self.good] = q[self.good]; self.q += self.qBG
Assemble(qold, qm, goodmask, bg) ==
    [i \in 1..Len(qold) |-> RAdd(IF goodmask[i] THEN qm[i] ELSE qold[i], bg)]

\* heatflux(DivCode, powerFrac) is the call
CalledHeatflux(DivCode, powerFrac) ==
    op' = "heatflux" /\ argDiv' = DivCode /\ argPf' = powerFrac
    /\ UNCHANGED <<drvVars, probe>>

\* heatflux fails and changes nothing
Raise(e) ==
    /\ err' = e
    /\ UNCHANGED <<ctlVars, initVars, dataVars, mpFile, LcminRead, calls>>

\* heatflux fails in the Layer branch after self.HFS has been assigned
RaiseLayer(e, hfs, files) ==
    /\ err' = e /\ HFS' = hfs /\ mpFile' = files
    /\ UNCHANGED <<ctlVars, initVars, psimin, Lc, N, q, good, pfr, LcminRead, calls>>

\* the Layer branch has what getq_layer and scale_layer read
LayerReady == ep # NoEp /\ psimin # <<>> /\ pfr # <<>>

\* the first exception of the Layer branch when it is not ready
LayerError ==
    IF ep = NoEp THEN "AttributeError"
    ELSE IF psimin = <<>> THEN "TypeError"
    ELSE "AttributeError"

\* the conductive branch has what it reads
ConductReady == psimin # <<>> /\ pfr # <<>> /\ ep # NoEp

\* the first exception of the conductive branch when it is not ready
ConductError == IF psimin = <<>> THEN "TypeError" ELSE "AttributeError"

\* heatflux(DivCode, powerFrac) of the Layer model, once self.HFS is assigned;
\* traced: scale_layer runs the tracer and it leaves its result file
heatfluxLayer(DivCode, powerFrac, traced) ==
    Let2(SideOf(DivCode), TagOf(SideOf(DivCode)), LAMBDA hfs, mp :
    Let(IF mpFile[mp] = <<>> /\ traced
        THEN [mpFile EXCEPT ![mp] = TraceMidplane(CalGrid(lqCN, S, lcfs, hfs))]
        ELSE mpFile, LAMBDA files :
        IF ~LayerReady THEN RaiseLayer(LayerError, hfs, mpFile)
        ELSE IF files[mp] = <<>> THEN RaiseLayer("UnboundLocalError", hfs, files)
        ELSE /\ q' = Assemble(q, Scaled(getq_layer(psimin, pfr, lqCN, S, lcfs, hfs),
                                        scale_layer(files[mp], lqCN, S,
                                                    RMul(Psol, powerFrac), lcfs, hfs,
                                                    ep)),
                              good, qBG)
             /\ HFS' = hfs /\ mpFile' = files
             /\ err' = "ok"
             /\ calls' = calls + 1
             /\ UNCHANGED <<ctlVars, initVars, psimin, Lc, N, good, pfr, LcminRead>>))

\* heatflux(DivCode, powerFrac) of the conductive model
heatfluxConduct(DivCode, powerFrac) ==
    IF ~ConductReady THEN Raise(ConductError)
    ELSE Let2(MeanLc(psimin, Lc, lcfs), Frac(lqCN, S), LAMBDA L, ratio :
             /\ q' = Assemble(q, Scaled(getq_conduct(psimin, kappa, L, pfr, ratio, lcfs),
                                        scale_conduct(RMul(Psol, powerFrac), kappa, L,
                                                      ratio, ep)),
                              good, qBG)
             /\ err' = "ok"
             /\ calls' = calls + 1
             /\ UNCHANGED <<ctlVars, initVars, psimin, Lc, N, good, pfr, HFS, mpFile,
                            LcminRead>>)

\* heatflux(DivCode, powerFrac) is entered
Enter(DivCode, powerFrac) == calls < MaxCalls /\ CalledHeatflux(DivCode, powerFrac)

\* heatflux(DivCode, powerFrac)
heatflux(DivCode, powerFrac) ==
    \/ /\ Enter(DivCode, powerFrac)
       /\ model = Unset
       /\ Raise("AttributeError")
    \/ /\ Enter(DivCode, powerFrac)
       /\ model = None
       /\ Raise("TypeError")
    \/ /\ Enter(DivCode, powerFrac)
       /\ model \in LayerTags
       /\ SideOf(DivCode) = None
       /\ Raise("ValueError: PFC Divertor Code cannot be identified")
    \/ /\ Enter(DivCode, powerFrac)
       /\ model \in LayerTags
       /\ SideOf(DivCode) # None
       /\ \E traced \in (IF mpFile[TagOf(SideOf(DivCode))] = <<>> THEN BOOLEAN
                         ELSE {FALSE}) :
             heatfluxLayer(DivCode, powerFrac, traced)
    \/ /\ Enter(DivCode, powerFrac)
       /\ model \in ConductTags
       /\ heatfluxConduct(DivCode, powerFrac)
    \/ /\ Enter(DivCode, powerFrac)
       /\ model \notin {Unset, None} \cup LayerTags \cup ConductTags
       /\ Raise("ValueError: No valid model selected")

(***************************************************************************)
(* class plasma3D: the driver of the external field-line tracer            *)
(***************************************************************************)
\* the ceiling of the process count in launchLaminar
MaxProc == 20

\* the process count as asked for
Unclamped(n) == n

\* if nproc > 20: nproc = 20
ClampProc(n) == IF n > MaxProc THEN MaxProc ELSE n

Min(a, b) == IF a < b THEN a ELSE b
Max(a, b) == IF a > b THEN a ELSE b

\* the process counts launchLaminar is asked for
ProcCounts == {4, 20, 21}

\* the tags of a run; tag = None becomes the empty tag
Tags == {"", "run"}

\* the points by their number: arrays R, phi, Z of the same length
PointSets == { <<1, 2>>, <<3, 2, 1>> }

\* the wall of the equilibrium, MHD.ep[0].g['wall']: Rmin, Rmax, Zmin, Zmax in mm
Wall == <<1000, 2400, -1500, 1500>>

\* the extents of the CAD
CadBoxes == { <<900, 2300, -1600, 1400>> }

\* the characters of the decimal digits
DigitChars == <<"0", "1", "2", "3", "4", "5", "6", "7", "8", "9">>

RECURSIVE Digits(_)
\* the decimal digits of n >= 0 as a string (a sequence of characters)
Digits(n) ==
    IF n < 10 THEN <<DigitChars[n + 1]>>
    ELSE Append(Digits(n \div 10), DigitChars[(n % 10) + 1])

\* str(n) of an int
IntStr(n) == IF n < 0 THEN <<"-">> \o Digits(-n) ELSE Digits(n)

\* a float of the control variables: <<n, k>> is n * 10^k with n not a multiple of
\* 10, and <<0, 0>> is 0.0.  A str(x) that always shows one decimal place:
FloatStrFixed(x) ==
    IF x[2] >= 0 THEN IntStr(x[1]) \o [i \in 1..x[2] |-> "0"] \o <<".", "0">>
    ELSE IF Len(Digits(Abs(x[1]))) + x[2] > 0
    THEN SubSeq(IntStr(x[1]), 1, Len(IntStr(x[1])) + x[2]) \o <<".">> \o
         <<IntStr(x[1])[Len(IntStr(x[1])) + x[2] + 1]>>
    ELSE (IF x[1] < 0 THEN <<"-">> ELSE <<>>) \o <<"0", ".">> \o
         <<IF Len(Digits(Abs(x[1]))) + x[2] = 0 THEN Digits(Abs(x[1]))[1] ELSE "0">>

\* str(x) of a float: the shortest decimal that reads back as x, positional for
\* 1e-4 <= |x| < 1e16 and with an exponent of at least two digits otherwise
FloatStr(x) ==
    LET n == x[1]
        k == x[2]
        d == Digits(Abs(n))
        L == Len(d)
        sign == IF n < 0 THEN <<"-">> ELSE <<>>
        e10 == L + k - 1
    IN  IF n = 0 THEN <<"0", ".", "0">>
        ELSE IF e10 < -4 \/ e10 >= 16
        THEN sign \o <<d[1]>> \o (IF L > 1 THEN <<".">> \o SubSeq(d, 2, L) ELSE <<>>)
             \o <<"e", IF e10 < 0 THEN "-" ELSE "+">>
             \o (IF Abs(e10) < 10 THEN <<"0">> ELSE <<>>) \o Digits(Abs(e10))
        ELSE IF k >= 0 THEN sign \o d \o [i \in 1..k |-> "0"] \o <<".", "0">>
        ELSE IF L + k > 0
        THEN sign \o SubSeq(d, 1, L + k) \o <<".">> \o SubSeq(d, L + k + 1, L)
        ELSE sign \o <<"0", ".">> \o [i \in 1..(-(L + k)) |-> "0"] \o d

RECURSIVE ParseNat(_)
\* the number a string of digits denotes
ParseNat(s) ==
    IF s = <<>> THEN 0
    ELSE 10 * ParseNat(SubSeq(s, 1, Len(s) - 1))
         + (CHOOSE v \in 0..9 : DigitChars[v + 1] = s[Len(s)])

\* the integer a string denotes: an optional sign and digits
ParseInt(s) ==
    IF s[1] = "-" THEN -ParseNat(Tail(s))
    ELSE IF s[1] = "+" THEN ParseNat(Tail(s))
    ELSE ParseNat(s)

RECURSIVE NormDec(_, _)
\* n * 10^k with the factors 10 of n moved into the exponent
NormDec(n, k) ==
    IF n = 0 THEN <<0, 0>>
    ELSE IF n % 10 = 0 THEN NormDec(n \div 10, k + 1)
    ELSE <<n, k>>

\* the float a string denotes: sign, digits with an optional point, and an
\* optional exponent e+dd / e-dd
ParseFloat(s) ==
    LET ePos == IF \E i \in 1..Len(s) : s[i] = "e"
                THEN CHOOSE i \in 1..Len(s) : s[i] = "e" ELSE Len(s) + 1
        mant == SubSeq(s, 1, ePos - 1)
        ex == IF ePos > Len(s) THEN 0 ELSE ParseInt(SubSeq(s, ePos + 1, Len(s)))
        dot == IF \E i \in 1..Len(mant) : mant[i] = "."
               THEN CHOOSE i \in 1..Len(mant) : mant[i] = "." ELSE Len(mant)
        digs == SelectSeq(mant, LAMBDA c : c # ".")
    IN  NormDec(ParseInt(digs), ex - (Len(mant) - dot))

\* the control variables of setMAFOTctl besides itt; nothing before
\* initializePlasma3D
NoMafot ==
    [response |-> 0, selectField |-> 0, useIcoil |-> 0, sigma |-> 0, charge |-> 0,
     Ekin |-> <<0, 0>>, Lambda |-> <<0, 0>>, Mass |-> 0]

\* the control variables for the input file whose itt is ittFile: the defaults of
\* setMAFOTctl for a missing file (ittFile = 0), otherwise what the file holds
\* (a file holds every variable)
MafotOf(ittFile) ==
    IF ittFile = 0
    THEN [response |-> 0, selectField |-> -1, useIcoil |-> 0, sigma |-> 0,
          charge |-> -1, Ekin |-> <<1, 1>>, Lambda |-> <<1, -1>>, Mass |-> 2]
    ELSE IF ittFile = 500
    THEN [response |-> 1, selectField |-> 2, useIcoil |-> 1, sigma |-> -1,
          charge |-> 1, Ekin |-> <<25, -1>>, Lambda |-> <<1, -5>>, Mass |-> 4]
    ELSE [response |-> 2, selectField |-> 0, useIcoil |-> 0, sigma |-> 1,
          charge |-> 2, Ekin |-> <<125, 0>>, Lambda |-> <<375, -3>>, Mass |-> 1]

\* the entries (key, value) of _lamCTL.dat that writeControlFile writes after the
\* three comment lines, in the order of the file
CtlLines(itt_, m, MapDirection) ==
    << <<"NZ", IntStr(10)>>,
       <<"itt", IntStr(itt_)>>,
       <<"Rmin", IntStr(1)>>,
       <<"Rmax", IntStr(2)>>,
       <<"Zmin", IntStr(-1)>>,
       <<"Zmax", IntStr(1)>>,
       <<"NR", IntStr(10)>>,
       <<"phistart(deg)", IntStr(0)>>,
       <<"MapDirection", IntStr(MapDirection)>>,
       <<"PlasmaResponse(0=no,>1=yes)", IntStr(m.response)>>,
       <<"Field(-3=VMEC,-2=SIESTA,-1=gfile,M3DC1:0=Eq,1=I-coil,2=both)",
         IntStr(m.selectField)>>,
       <<"target(0=cp,1=inner,2=outer,3=shelf)", IntStr(0)>>,
       <<"createPoints(0=setR,3=setpsi)", IntStr(0)>>,
       <<"unused", IntStr(0)>>,
       <<"unused", IntStr(0)>>,
       <<"unused", IntStr(0)>>,
       <<"ParticleDirection(1=co-pass,-1=ctr-pass,0=field-lines)", IntStr(m.sigma)>>,
       <<"PartileCharge(-1=electrons,>=1=ions)", IntStr(m.charge)>>,
       <<"Ekin[keV]", FloatStr(m.Ekin)>>,
       <<"lambda", FloatStr(m.Lambda)>>,
       <<"Mass", IntStr(m.Mass)>>,
       <<"unused", IntStr(0)>>,
       <<"unused", IntStr(0)>>,
       <<"dpinit", <<"1", ".", "0">> >>,
       <<"pi", <<"3", ".", "1", "4", "1", "5", "9", "2", "6", "5", "3", "5", "8",
                 "9", "7", "9", "3">> >>,
       <<"2*pi", <<"6", ".", "2", "8", "3", "1", "8", "5", "3", "0", "7", "1", "7",
                   "9", "5", "8", "6">> >> >>

\* a reader of the control file: the position of the entry with the key, and
\* the text after the tab
Pos(file, key) == CHOOSE i \in 1..Len(file) : file[i][1] = key
Value(file, key) == file[Pos(file, key)][2]

\* itt of setMAFOTctl without arguments, which a missing input file gives
IttDefault == 300

\* the input file of the tracer runs, by its itt: it is missing (0)
IttFiles == {0}

\* str() of a number of the source lists: an int <<n>>, or a float <<n, k>> of
\* the value n*10^k
PyStr(v) == IF Len(v) = 1 THEN IntStr(v[1]) ELSE FloatStr(v)

\* the default arguments of setM3DC1input: C1Files = ['./C1.h5'], scales = [1]
DefaultC1 == [C1Files |-> <<"./C1.h5">>, scales |-> << <<1>> >>]

\* setM3DC1input(C1Files, scales, phases) with the arguments in a.given passed and
\* the others left to their defaults: the lists as the object then holds them
SourcesOf(a) ==
    Let(IF "C1Files" \in a.given THEN a.C1Files ELSE DefaultC1.C1Files, LAMBDA files :
        [C1Files |-> files,
         C1scales |-> IF "scales" \in a.given THEN a.scales ELSE DefaultC1.scales,
         C1phases |-> IF "phases" \in a.given THEN a.phases
                      ELSE [i \in 1..Len(files) |-> <<0, 0>>]])

\* setM3DC1input called with nothing, and with all three lists
NoArgs == [given |-> {}, C1Files |-> <<>>, scales |-> <<>>, phases |-> <<>>]
AllArgs(files, scales, phases) ==
    [given |-> {"C1Files", "scales", "phases"}, C1Files |-> files, scales |-> scales,
     phases |-> phases]

\* c1file.replace('./', self.inputDir + '/') for the paths of the files read
InInputDir(path) ==
    IF path = "./a.h5" THEN "inputDir/a.h5"
    ELSE IF path = "./C1.h5" THEN "inputDir/C1.h5"
    ELSE path

\* the lines of m3dc1sup.in that name a source: not blank, not a comment
SourceLines(lines) == SelectSeq(lines, LAMBDA w : w # <<>> /\ w[1] # "#")

\* a reader that takes a file without a source line as a list of no sources
SupArgsNoFallback(file) ==
    Let(IF file.found THEN SourceLines(file.lines) ELSE <<>>, LAMBDA src :
        IF ~file.found THEN NoArgs
        ELSE AllArgs([i \in 1..Len(src) |-> InInputDir(src[i][1])],
                     [i \in 1..Len(src) |-> ParseFloat(src[i][2])],
                     [i \in 1..Len(src) |->
                         IF Len(src[i]) > 2 THEN ParseFloat(src[i][3]) ELSE <<0>>]))

\* readM3DC1supFile up to its call of setM3DC1input: the arguments of that call
\* for the file (found, lines); a line is its words, the path and the numbers
SupArgs(file) ==
    Let(IF file.found THEN SourceLines(file.lines) ELSE <<>>, LAMBDA src :
        IF src = <<>> THEN NoArgs
        ELSE AllArgs([i \in 1..Len(src) |-> InInputDir(src[i][1])],
                     [i \in 1..Len(src) |-> ParseFloat(src[i][2])],
                     [i \in 1..Len(src) |->
                         IF Len(src[i]) > 2 THEN ParseFloat(src[i][3]) ELSE <<0>>]))

\* writeM3DC1supFile on the lists: the lines that reach the file, which are those
\* before the IndexError of the first source without a scale or a phase
SupWritten(files, scales, phases) ==
    Let(Min(Len(files), Min(Len(scales), Len(phases))), LAMBDA n :
        [i \in 1..n |-> <<files[i], PyStr(scales[i]), PyStr(phases[i])>>])

\* no file m3dc1sup.in
NoSupFile == [found |-> FALSE, lines |-> <<>>]

\* the row the tracer writes for point p: columns 3 and 4 are Lc (in m) and psimin
\* (in 1e-3); point 3 does not converge
TraceRow(p) ==
    IF p = 1 THEN <<p, 0, 0, 300, 1005>>
    ELSE IF p = 2 THEN <<p, 0, 0, 50, 900>>
    ELSE <<p, 0, 0, 10, Sentinel>>

\* what the external tracer does: mpirun is not installed; it ends without a result
\* file; it writes the result file
TracerOutcomes == {"absent", "nofile", "done"}

\* no invocation of the tracer yet; wrote: the invocation left its result file
NoRun == [n |-> 0, bb |-> <<>>, tag |-> "", points |-> <<>>, wrote |-> FALSE]

\* plasma3D.__init__
InitDriver ==
    /\ p3d_R = <<>> /\ p3d_psimin = <<>> /\ p3d_Lc = <<>> /\ bb = <<>>
    /\ itt = 0 /\ mafot = NoMafot /\ nproc = 0 /\ tag = Unset
    /\ C1Files = <<>> /\ C1scales = <<>> /\ C1phases = <<>> /\ supIn = NoSupFile
    /\ pointsFile = <<>> /\ ctlFile = <<>> /\ supFile = <<>>
    /\ lamFile = [t \in Tags |-> <<>>]
    /\ mpirun = NoRun /\ argNproc = 0 /\ launches = 0 /\ argTag = Unset
    /\ waitPc = "idle" /\ restarts = 0

Init == InitHF /\ InitDriver

\* a method of plasma3D is the call; the heat flux object is another object
CalledDriver(name) == op' = name /\ UNCHANGED <<hfVars, waitVars>>

\* the source lists become those of setM3DC1input with the arguments a
SetSources(a) ==
    Let(SourcesOf(a), LAMBDA src :
        /\ C1Files' = src.C1Files
        /\ C1scales' = src.C1scales
        /\ C1phases' = src.C1phases)

\* initializePlasma3D(shot, time, inputFile): ittFile is itt of the input file, 0
\* when the file is missing; inputDir is not cwd; readM3DC1supFile ends the call
initializePlasma3D(ittFile) ==
    /\ itt' = IF ittFile = 0 THEN IttDefault ELSE ittFile
    /\ mafot' = MafotOf(ittFile)
    /\ SetSources(SupArgs(supIn))
    /\ err' = "ok" /\ CalledDriver("initializePlasma3D") /\ argTag' = Unset
    /\ UNCHANGED <<p3d_R, p3d_psimin, p3d_Lc, bb, nproc, tag, supIn, cwdVars, mpirun,
                   argNproc, launches>>

\* setBoundaryBox(MHD, CAD)
setBoundaryBox(cad) ==
    /\ bb' = <<Min(cad[1], Wall[1]), Max(cad[2], Wall[2]),
               Min(cad[3], Wall[3]), Max(cad[4], Wall[4])>>
    /\ err' = "ok" /\ CalledDriver("setBoundaryBox") /\ argTag' = Unset
    /\ UNCHANGED <<p3d_R, p3d_psimin, p3d_Lc, itt, mafot, C1Files, C1scales, C1phases,
                   supIn, nproc, tag, cwdVars,
                   mpirun, argNproc, launches>>

\* updatePoints(R, phi, Z): the arrays are stored and writePoints writes the file
\* in cwd; before initializePlasma3D there is no self.cwd
updatePoints(pts) ==
    /\ p3d_R' = pts
    /\ IF itt = 0
       THEN pointsFile' = pointsFile /\ err' = "AttributeError"
       ELSE pointsFile' = pts /\ err' = "ok"
    /\ CalledDriver("updatePoints") /\ argTag' = Unset
    /\ UNCHANGED <<p3d_psimin, p3d_Lc, bb, itt, mafot, C1Files, C1scales, C1phases, supIn,
                   nproc, tag, ctlFile, supFile,
                   lamFile, mpirun, argNproc, launches>>

\* lamdata[:,3] and lamdata[:,4] of the rows of a result file
Column(rows, c) == [i \in 1..Len(rows) |-> rows[i][c]]

\* a read that forgets the stored trace result when the file is missing
ReadLaminarReset(t, files) ==
    IF files[t] # <<>>
    THEN p3d_Lc' = Column(files[t], 4) /\ p3d_psimin' = Column(files[t], 5)
    ELSE p3d_Lc' = <<>> /\ p3d_psimin' = <<>>

\* readLaminar(tag) on the files: Lc and psimin are set if the file exists
ReadLaminar(t, files) ==
    IF files[t] # <<>>
    THEN p3d_Lc' = Column(files[t], 4) /\ p3d_psimin' = Column(files[t], 5)
    ELSE UNCHANGED <<p3d_Lc, p3d_psimin>>

\* readLaminar(tag, path = None); before initializePlasma3D there is no self.cwd
readLaminar(t) ==
    /\ IF itt = 0
       THEN err' = "AttributeError" /\ UNCHANGED <<p3d_Lc, p3d_psimin>>
       ELSE err' = "ok" /\ ReadLaminar(t, lamFile)
    /\ CalledDriver("readLaminar") /\ argTag' = t
    /\ UNCHANGED <<p3d_R, bb, itt, mafot, C1Files, C1scales, C1phases, supIn, nproc, tag,
                   cwdVars, mpirun, argNproc,
                   launches>>

\* the result files after the tracer has run on the points file with the tag t
Traced(t, out) ==
    IF out = "done" /\ pointsFile # <<>>
    THEN [lamFile EXCEPT ![t] = [i \in 1..Len(pointsFile) |-> TraceRow(pointsFile[i])]]
    ELSE lamFile

\* launchLaminar(nproc, tag): n processes are asked for; out is what the tracer does
launchLaminar(n, t, out) ==
    /\ launches < MaxLaunch
    /\ launches' = launches + 1 /\ argNproc' = n /\ argTag' = t
    /\ CalledDriver("launchLaminar")
    /\ IF itt = 0
       THEN \* before initializePlasma3D writeControlFile fails on self.cwd
            /\ err' = "AttributeError"
            /\ UNCHANGED <<p3dVars, cwdVars, mpirun>>
       ELSE /\ ctlFile' = CtlLines(itt, mafot, 0)
            /\ supFile' = SupWritten(C1Files, C1scales, C1phases)
            /\ UNCHANGED <<p3d_R, bb, itt, mafot, C1Files, C1scales, C1phases, supIn,
                           pointsFile>>
            /\ IF Len(supFile') < Len(C1Files)
               THEN \* writeM3DC1supFile fails, nothing is launched
                    /\ err' = "IndexError"
                    /\ UNCHANGED <<nproc, tag, p3d_psimin, p3d_Lc, lamFile, mpirun>>
               ELSE IF out = "absent"
               THEN \* subprocess.run fails, the tracer is not started
                    /\ nproc' = ClampProc(n) /\ tag' = t
                    /\ err' = "FileNotFoundError"
                    /\ UNCHANGED <<p3d_psimin, p3d_Lc, lamFile, mpirun>>
               ELSE /\ nproc' = ClampProc(n) /\ tag' = t
                    /\ mpirun' = [n |-> ClampProc(n), bb |-> bb, tag |-> t,
                                  points |-> pointsFile,
                                  wrote |-> out = "done" /\ pointsFile # <<>>]
                    /\ lamFile' = Traced(t, out)
                    /\ ReadLaminar(t, lamFile')
                    /\ err' = "ok"

\* the directories copyAndRead is pointed at: an empty one, and the cwd of an
\* earlier run with the input file of itt 500 on the points 1 and 2
OtherDirs ==
    { [ctl |-> <<>>, sup |-> <<>>, lam |-> <<>>],
      [ctl |-> CtlLines(500, MafotOf(500), 0),
       sup |-> << <<"./C1.h5", <<"1">>, <<"0", ".", "0">> >> >>,
       lam |-> <<TraceRow(1), TraceRow(2)>>] }

\* copyAndRead(path, tag): the files that exist in path are copied into cwd, then
\* readLaminar(tag) reads the result file in cwd
copyAndRead(d, t) ==
    /\ CalledDriver("copyAndRead") /\ argTag' = t
    /\ IF itt = 0
       THEN \* before initializePlasma3D there is no self.cwd
            /\ err' = "AttributeError"
            /\ UNCHANGED <<p3d_psimin, p3d_Lc, ctlFile, supFile, lamFile>>
       ELSE /\ ctlFile' = IF d.ctl # <<>> THEN d.ctl ELSE ctlFile
            /\ supFile' = IF d.sup # <<>> THEN d.sup ELSE supFile
            /\ lamFile' = IF d.lam # <<>> THEN [lamFile EXCEPT ![t] = d.lam]
                          ELSE lamFile
            /\ ReadLaminar(t, lamFile')
            /\ err' = "ok"
    /\ UNCHANGED <<p3d_R, bb, itt, mafot, C1Files, C1scales, C1phases, supIn, nproc, tag,
                   pointsFile, mpirun, argNproc,
                   launches>>

\* what the poll and the check of wait2finish leave alone
WaitFrame ==
    UNCHANGED <<hfVars, p3dVars, cwdVars, mpirun, argNproc, launches, argTag, op>>

\* wait2finish(nproc, tag) is called (and calls itself after a restart): it sleeps
\* and enters the loop on isProcessRunning
wait2finish(t) ==
    /\ waitPc = "idle"
    /\ waitPc' = "poll" /\ restarts' = 0
    /\ op' = "wait2finish" /\ argTag' = t /\ err' = "pending"
    /\ UNCHANGED <<hfVars, p3dVars, cwdVars, mpirun, argNproc, launches>>

\* while(self.isProcessRunning()): time.sleep(60); running is what ps shows
isProcessRunning(running) ==
    /\ waitPc = "poll"
    /\ waitPc' = IF running THEN "poll" ELSE "check"
    /\ UNCHANGED <<restarts, err>> /\ WaitFrame

\* if not self.isComplete(): restart and wait2finish again, else return.  marker:
\* the first log *_Master.dat holds 'Program terminates normally'; out: what the
\* restarted tracer does (subprocess.call returns when it has exited).  The restart
\* runs on points.dat, a file the driver does not write.
isComplete(marker, out) ==
    /\ waitPc = "check"
    /\ WaitFrame
    /\ IF itt = 0
       THEN \* before initializePlasma3D there is no self.cwd
            waitPc' = "idle" /\ err' = "AttributeError" /\ UNCHANGED restarts
       ELSE IF marker
       THEN waitPc' = "idle" /\ err' = "ok" /\ UNCHANGED restarts
       ELSE IF out = "absent"
       THEN waitPc' = "idle" /\ err' = "FileNotFoundError" /\ UNCHANGED restarts
       ELSE /\ restarts < MaxRestart
            /\ restarts' = restarts + 1
            /\ waitPc' = "poll" /\ err' = "pending"

Next ==
    \/ \E eq \in EqSet, f \in InputFiles : initializeHF3D(eq, f)
    \/ \E c \in CtlArgs : setHFctl(c)
    \/ \E f \in InputFiles : read_input_file(f)
    \/ \E b \in Batches : updateLaminarData(b)
    \/ \E d \in DivCodes, pf \in PowerFracs : heatflux(d, pf)

\* the heat flux model
Spec == Init /\ [][Next]_vars

\* the map directions a caller passes: backward, both, forward
MapDirections == {-1, 0, 1}

\* the input files a control file is written for, by their itt: missing (0), and
\* two files with their own values
CtlIttFiles == {0, 500, 20}

\* a writeControlFile that writes the response flag and the field code before
\* the map direction
writeControlFileResponseFirst(MapDirection) ==
    /\ IF itt = 0
       THEN ctlFile' = ctlFile /\ err' = "AttributeError"
       ELSE /\ ctlFile' = Let(CtlLines(itt, mafot, MapDirection), LAMBDA f :
                   [i \in 1..Len(f) |->
                       f[IF i = 9 THEN 10 ELSE IF i = 10 THEN 11
                         ELSE IF i = 11 THEN 9 ELSE i]])
            /\ err' = "ok"
    /\ CalledDriver("writeControlFile") /\ argTag' = Unset
    /\ UNCHANGED <<p3dVars, pointsFile, supFile, lamFile, mpirun, argNproc, launches>>

\* the sequence f without its entry k
Without(f, k) == [i \in 1..(Len(f) - 1) |-> f[IF i < k THEN i ELSE i + 1]]

\* a writeControlFile that leaves out the first of the unused entries after
\* createPoints
writeControlFileLessUnused(MapDirection) ==
    /\ IF itt = 0
       THEN ctlFile' = ctlFile /\ err' = "AttributeError"
       ELSE ctlFile' = Without(CtlLines(itt, mafot, MapDirection), 14) /\ err' = "ok"
    /\ CalledDriver("writeControlFile") /\ argTag' = Unset
    /\ UNCHANGED <<p3dVars, pointsFile, supFile, lamFile, mpirun, argNproc, launches>>

\* writeControlFile(MapDirection): overwrites _lamCTL.dat in cwd; before
\* initializePlasma3D there is no cwd and nothing is written
writeControlFile(MapDirection) ==
    /\ IF itt = 0
       THEN ctlFile' = ctlFile /\ err' = "AttributeError"
       ELSE ctlFile' = CtlLines(itt, mafot, MapDirection) /\ err' = "ok"
    /\ CalledDriver("writeControlFile") /\ argTag' = Unset
    /\ UNCHANGED <<p3dVars, pointsFile, supFile, lamFile, mpirun, argNproc, launches>>

\* the files m3dc1sup.in put into inputDir: none; a file of comments and blank
\* lines; one source with a phase; a source without a phase and one with an
\* absolute path
SupFiles ==
    { NoSupFile,
      [found |-> TRUE, lines |-> << <<"#">>, <<>> >>],
      [found |-> TRUE, lines |-> << <<"./a.h5", <<"2", ".", "5">>, <<"9", "0">> >> >>],
      [found |-> TRUE,
       lines |-> << <<"#">>, <<"./a.h5", <<"1">> >>,
                    <<"/b.h5", <<"0", ".", "5">>, <<"4", "5", ".", "0">> >> >>] }

\* the arguments of the direct calls of setM3DC1input: none; the files only; the
\* files and the scales; all three
SourceArgs ==
    { NoArgs,
      [given |-> {"C1Files"}, C1Files |-> <<"a.h5", "b.h5">>, scales |-> <<>>,
       phases |-> <<>>],
      [given |-> {"C1Files", "scales"}, C1Files |-> <<"a.h5", "b.h5">>,
       scales |-> << <<2>>, <<5, -1>> >>, phases |-> <<>>],
      AllArgs(<<"a.h5">>, << <<2, 0>> >>, << <<9, 1>> >>) }

\* a file m3dc1sup.in is put into inputDir, or removed from it
putSupFile(f) ==
    /\ supIn' = f
    /\ err' = "ok" /\ CalledDriver("putSupFile") /\ argTag' = Unset
    /\ UNCHANGED <<p3d_R, p3d_psimin, p3d_Lc, bb, itt, mafot, C1Files, C1scales, C1phases,
                   nproc, tag, cwdVars, mpirun, argNproc, launches>>

\* setM3DC1input(C1Files, scales, phases)
setM3DC1input(a) ==
    /\ SetSources(a)
    /\ err' = "ok" /\ CalledDriver("setM3DC1input") /\ argTag' = Unset
    /\ UNCHANGED <<p3d_R, p3d_psimin, p3d_Lc, bb, itt, mafot, supIn, nproc, tag, cwdVars,
                   mpirun, argNproc, launches>>

\* readM3DC1supFile(); before initializePlasma3D there is no self.inputDir
readM3DC1supFile ==
    /\ IF itt = 0
       THEN err' = "AttributeError" /\ UNCHANGED <<C1Files, C1scales, C1phases>>
       ELSE err' = "ok" /\ SetSources(SupArgs(supIn))
    /\ CalledDriver("readM3DC1supFile") /\ argTag' = Unset
    /\ UNCHANGED <<p3d_R, p3d_psimin, p3d_Lc, bb, itt, mafot, supIn, nproc, tag, cwdVars,
                   mpirun, argNproc, launches>>

\* writeM3DC1supFile(): overwrites m3dc1sup.in in cwd; before initializePlasma3D
\* there is no self.cwd
writeM3DC1supFile ==
    /\ IF itt = 0
       THEN supFile' = supFile /\ err' = "AttributeError"
       ELSE /\ supFile' = SupWritten(C1Files, C1scales, C1phases)
            /\ err' = IF Len(supFile') < Len(C1Files) THEN "IndexError" ELSE "ok"
    /\ CalledDriver("writeM3DC1supFile") /\ argTag' = Unset
    /\ UNCHANGED <<p3dVars, pointsFile, ctlFile, lamFile, mpirun, argNproc, launches>>

\* the arguments of a direct call of getq_conduct: the conductivity, the
\* conduction distance (300 m, 1/3 m, 0), the ratio lq/S, and whether the mask of
\* the private flux region is passed (pfr is None otherwise)
ConductArgs ==
    [kappa : {2000, 700}, L : {Rat(300), Frac(1, 3), Zero},
     ratio : {Frac(5, 2), Rat(1)}, pfr : BOOLEAN]

\* q = getq_conduct(psi, kappa, 0, L, True, pfr, ratio) on the psimin of a batch;
\* before initializeHF3D there is no profile fT
callGetqConduct(b, a) ==
    /\ IF ep = NoEp
       THEN probe' = probe /\ err' = "AttributeError"
       ELSE /\ probe' =
                Let2([i \in 1..Len(b) |-> b[i][1]],
                     [i \in 1..Len(b) |-> a.pfr /\ b[i][1] < PsiSep /\ b[i][2] < Lcmin],
                     LAMBDA psi, mask :
                         [psi |-> psi, kappa |-> a.kappa, L |-> a.L, pfr |-> mask,
                          ratio |-> a.ratio,
                          q |-> getq_conduct(psi, a.kappa, a.L, mask, a.ratio, lcfs)])
            /\ err' = "ok"
    /\ op' = "getq_conduct" /\ argDiv' = <<>> /\ argPf' = Zero
    /\ UNCHANGED <<ctlVars, initVars, dataVars, mpFile, LcminRead, calls, drvVars>>

\* the input files of the Layer model: those of InputFiles and a file with the
\* default configuration and the Layer model
LayerFiles == InputFiles \cup {[found |-> TRUE, ctl |-> DefaultCtl, model |-> "Layer"]}

NextLayer ==
    \/ \E f \in LayerFiles : initializeHF3D([psiAxis |-> 0, psiSep |-> 1], f)
    \/ \E f \in LayerFiles : read_input_file(f)
    \/ \E b \in LayerBatches : updateLaminarData(b)
    \/ \E d \in DivCodes, pf \in PowerFracs : heatflux(d, pf)

\* the heat flux model with input files of both configurations for the Layer
\* model, in one equilibrium
SpecLayer == Init /\ [][NextLayer]_vars

\* heatflux(DivCode, powerFrac) of another heatflux3D object, configured with c
\* and the Layer model in the same inputDir (the default of both is os.getcwd()):
\* its scale_layer leaves the result file of its grid unless a file is there
otherHeatflux(c, DivCode) ==
    /\ SideOf(DivCode) # None
    /\ mpFile' =
           IF mpFile[TagOf(SideOf(DivCode))] = <<>>
           THEN [mpFile EXCEPT ![TagOf(SideOf(DivCode))] =
                    TraceMidplane(CalGrid(c.lqCN, c.S, c.lcfs, SideOf(DivCode)))]
           ELSE mpFile
    /\ op' = "other.heatflux" /\ argDiv' = DivCode /\ argPf' = Zero
    /\ UNCHANGED <<ctlVars, initVars, dataVars, err, LcminRead, calls, drvVars, probe>>

NextShared ==
    \/ /\ model = Unset
       /\ \E f \in LayerFiles : initializeHF3D([psiAxis |-> 0, psiSep |-> 1], f)
    \/ \E b \in Batches : updateLaminarData(b)
    \/ \E d \in DivCodes, pf \in PowerFracs : heatflux(d, pf)
    \/ \E c \in CtlArgs, d \in DivCodes : otherHeatflux(c, d)

\* a heat flux object that is configured once, and another one in its inputDir
SpecShared == Init /\ [][NextShared]_vars

NextConduct ==
    \/ \E eq \in EqSet, f \in InputFiles : initializeHF3D(eq, f)
    \/ \E c \in CtlArgs : setHFctl(c)
    \/ \E b \in Batches, a \in ConductArgs : callGetqConduct(b, a)

\* the conductive profile called directly
SpecConduct == Init /\ [][NextConduct]_vars

NextSup ==
    \/ \E i \in IttFiles : initializePlasma3D(i)
    \/ \E f \in SupFiles : putSupFile(f)
    \/ \E a \in SourceArgs : setM3DC1input(a)
    \/ readM3DC1supFile
    \/ writeM3DC1supFile
    \/ \E pts \in PointSets : updatePoints(pts)
    \/ \E out \in TracerOutcomes : launchLaminar(4, "run", out)

\* the driver and its perturbation sources
SpecSup == Init /\ [][NextSup]_vars

NextDriver ==
    \/ \E i \in IttFiles : initializePlasma3D(i)
    \/ \E cad \in CadBoxes : setBoundaryBox(cad)
    \/ \E pts \in PointSets : updatePoints(pts)
    \/ \E n \in ProcCounts, t \in Tags, out \in TracerOutcomes : launchLaminar(n, t, out)
    \/ \E t \in Tags : readLaminar(t)
    \/ \E d \in OtherDirs, t \in Tags : copyAndRead(d, t)

\* the driver of the tracer
SpecDriver == Init /\ [][NextDriver]_vars

NextWait ==
    \/ waitPc = "idle" /\ \E i \in IttFiles : initializePlasma3D(i)
    \/ waitPc = "idle" /\ \E cad \in CadBoxes : setBoundaryBox(cad)
    \/ waitPc = "idle" /\ \E pts \in PointSets : updatePoints(pts)
    \/ \E t \in Tags : wait2finish(t)
    \/ \E running \in BOOLEAN : isProcessRunning(running)
    \/ \E marker \in BOOLEAN, out \in TracerOutcomes : isComplete(marker, out)

\* the driver with the recovery strategy wait2finish; a call blocks the caller
SpecWait == Init /\ [][NextWait]_vars

NextCtl ==
    \/ \E i \in CtlIttFiles : initializePlasma3D(i)
    \/ \E cad \in CadBoxes : setBoundaryBox(cad)
    \/ \E pts \in PointSets : updatePoints(pts)
    \/ \E md \in MapDirections : writeControlFile(md)

\* the driver writing its control file
SpecCtl == Init /\ [][NextCtl]_vars

(***************************************************************************)
(* Properties of the heat flux model (specification Spec)                  *)
(***************************************************************************)
\* heatflux has returned
Returned == op = "heatflux" /\ err = "ok"

\* the error of an unrecognised model tag and of an unrecognised divertor code
NoValidModel == "ValueError: No valid model selected"
NoDivCode == "ValueError: PFC Divertor Code cannot be identified"

\* C1: once heatflux has returned, every point whose psimin is the sentinel 10 has
\* the flux q exactly qBG, after any sequence of updateLaminarData and heatflux calls
C1_SentinelGetsBackground ==
    Returned => \A i \in 1..N : psimin[i] = Sentinel => q[i] = qBG

\* C2: a heatflux call that follows a heatflux call with the same arguments, with
\* nothing in between, leaves the flux field as the first call left it
C2_RepeatedCallSameFlux ==
    [][(Returned /\ op' = "heatflux" /\ err' = "ok" /\ argDiv' = argDiv /\ argPf' = argPf)
           => q' = q]_vars

\* C3: with trace data stored by updateLaminarData, good has one entry per point and
\* good[i] is true exactly when psimin[i] is not the sentinel 10
C3_GoodMask ==
    psimin # <<>> =>
        /\ Len(good) = N
        /\ \A i \in 1..N : good[i] = (psimin[i] # Sentinel)

\* updateLaminarData has stored a batch with a point that did not converge between
\* two that did
C3_Witness ==
    /\ op = "updateLaminarData"
    /\ psimin = <<1005, 10000, 1020>>
    /\ good = <<TRUE, FALSE, TRUE>>

\* C4: when updateLaminarData has returned, pfr has one entry per point and pfr[i]
\* is true exactly when psimin[i] < 1 and Lc[i] < Lcmin; so a point with psimin >= 1
\* and a point with Lc >= Lcmin are not in the private flux region
C4_PfrMask ==
    (op = "updateLaminarData" /\ err = "ok") =>
        /\ Len(pfr) = N
        /\ \A i \in 1..N : pfr[i] = (psimin[i] < PsiSep /\ Lc[i] < Lcmin)

\* the scenario psimin = [0.9, 1.0, 10, 1.05], Lc = [0.05, 0.2, 0.01, 0.3] km with
\* Lcmin = 0.075 km
C4_Witness ==
    /\ op = "updateLaminarData" /\ err = "ok" /\ Lcmin = 75
    /\ psimin = <<900, 1000, 10000, 1050>> /\ Lc = <<50, 200, 10, 300>>
    /\ good = <<TRUE, TRUE, FALSE, TRUE>>
    /\ pfr = <<TRUE, FALSE, FALSE, FALSE>>

C6_MasksFollowConfiguration ==
    (psimin # <<>> /\ pfr # <<>>) =>
        \A i \in 1..N :
            /\ pfr[i] = (psimin[i] < PsiSep /\ Lc[i] < Lcmin)
            /\ good[i] = (psimin[i] # Sentinel)

\* C7: once heatflux has returned, every entry of the flux field is at least qBG
\* (the target power of every configuration is positive)
C7_AtLeastBackground ==
    Returned => \A i \in 1..Len(q) : RLe(qBG, q[i])

\* C8: a heatflux call with a model that is none of the Layer and conductive tags,
\* the model None of the defaults included, fails with 'No valid model selected'
\* and leaves the flux field and the masks as they were
C8_UnknownModelFails ==
    [][(op' = "heatflux" /\ model # Unset /\ model \notin LayerTags \cup ConductTags)
           => (err' = NoValidModel /\ q' = q /\ good' = good /\ pfr' = pfr)]_vars

\* C9: in the Layer model a divertor code that contains 'O' selects the low-field
\* side (HFS = False), a code that contains 'I' and no 'O' selects the high-field
\* side (HFS = True), and a code that contains neither makes heatflux fail with the
\* error of the divertor code, the flux field and the stored orientation unchanged
C9_OrientationByContainment ==
    [][(op' = "heatflux" /\ model \in LayerTags) =>
           /\ Contains(argDiv', "O") => HFS' = "False"
           /\ (~Contains(argDiv', "O") /\ Contains(argDiv', "I")) => HFS' = "True"
           /\ (~Contains(argDiv', "O") /\ ~Contains(argDiv', "I")) =>
                  (err' = NoDivCode /\ q' = q /\ HFS' = HFS)]_vars

\* the code 'X' has made heatflux fail after a call with the code 'I' had selected
\* the high-field side
C9_Witness ==
    /\ op = "heatflux" /\ model \in LayerTags /\ argDiv = <<"X">>
    /\ err = NoDivCode /\ HFS = "True"

\* C9 as stated for the codes 'O' and 'I' alone: the code 'O' selects HFS = False,
\* the code 'I' selects HFS = True, and every other code makes heatflux fail with
\* the flux field and the stored orientation unchanged
C9_OrientationByExactCode ==
    [][(op' = "heatflux" /\ model \in LayerTags) =>
           /\ argDiv' = <<"O">> => HFS' = "False"
           /\ argDiv' = <<"I">> => HFS' = "True"
           /\ argDiv' \notin {<<"O">>, <<"I">>} =>
                  (err' = NoDivCode /\ q' = q /\ HFS' = HFS)]_vars

\* C20: the power-balance scale a heatflux call of the conductive model used is
\* targetPower / |integral| with targetPower = P * (1 - coreRadFrac) * powerFrac of
\* the configuration at the time of the call
C20_ScaleFromCurrentPower ==
    (Returned /\ model \in ConductTags) =>
        Let2(MeanLc(psimin, Lc, lcfs), Frac(lqCN, S), LAMBDA L, ratio :
            scale_conduct(RMul(Psol, argPf), kappa, L, ratio, ep)
                = PowerScale(RMul(RMul(Rat(P), RSub(Rat(1), coreRadFrac)), argPf),
                             conductP0Tab[kappa, L, ratio, ep]))

\* the temperature the conductive model is to use for the point i
ConductT(i) ==
    IF pfr[i] THEN fT(PsiEff(Frac(lqCN, S), psimin[i]))
    ELSE IF psimin[i] < lcfs THEN fT(lcfs)
    ELSE fT(psimin[i])

\* C26: the flux a heatflux call of the conductive model assigns to a converged
\* point is the conduction formula at the temperature T(1 + lq/S*(1 - psi)) for a
\* point of the private flux region (also when psi < lcfs), at T(lcfs) for any
\* other point with psi < lcfs and at T(psi) for the rest
C26_ConductTemperature ==
    (Returned /\ model \in ConductTags) =>
        Let2(MeanLc(psimin, Lc, lcfs),
             scale_conduct(RMul(Psol, argPf), kappa, MeanLc(psimin, Lc, lcfs),
                           Frac(lqCN, S), ep),
             LAMBDA L, q0 :
                 \A i \in 1..N :
                     good[i] => q[i] = RAdd(RMul(ConductQ(kappa, L, ConductT(i)), q0), qBG))

\* the conductive model has returned a finite flux above the background at a point
\* of the private flux region inside the LCFS, where the remapped temperature is
\* not the one at the LCFS, and at a point outside the LCFS
C26_Witness ==
    /\ Returned /\ model \in ConductTags
    /\ \E i, j \in 1..N :
          /\ good[i] /\ pfr[i] /\ psimin[i] < lcfs /\ ConductT(i) # fT(lcfs)
          /\ good[j] /\ ~pfr[j] /\ psimin[j] >= lcfs
          /\ IsFinite(q[i]) /\ IsFinite(q[j])
          /\ RLt(qBG, q[i]) /\ RLt(qBG, q[j])

\* heatflux has returned in the Layer model
ReturnedLayer == Returned /\ model \in LayerTags

\* C21: in the Layer model the flux of the private flux region is continuous at
\* the separatrix: the point of the private flux region nearest the separatrix
\* gets the value qsep of the main branch, and no point of the region gets more
C21_PfrContinuity ==
    (ReturnedLayer /\ \E i \in 1..N : pfr[i]) =>
        Let2(getq_layer(psimin, pfr, lqCN, S, lcfs, HFS),
             set_layer(psimin, lqCN, S, lcfs, Rat(1), TRUE, HFS).qsep,
             LAMBDA g, qsep :
                 \A i \in 1..N :
                     pfr[i] =>
                         /\ RLe(g[i], qsep)
                         /\ (\A j \in 1..N : pfr[j] => psimin[j] <= psimin[i])
                                => g[i] = qsep)

(***************************************************************************)
(* Properties of the Layer model (specification SpecLayer)                 *)
(***************************************************************************)
\* what getq_layer returned in the heatflux call that has returned
LayerShape == getq_layer(psimin, pfr, lqCN, S, lcfs, HFS)

\* C22: the shape getq_layer returns is normalized to peak = 1: no point has a value
\* above 1 and the maximum over the points is exactly 1
C22_PeakIsOne ==
    ReturnedLayer =>
        Let(LayerShape, LAMBDA g :
            /\ \A i \in 1..N : RLe(g[i], Rat(1))
            /\ \E i \in 1..N : g[i] = Rat(1))

\* C25: the points inside the LCFS (psimin < lcfs) outside the private flux region
\* all get one and the same value, and no point outside the LCFS gets a larger one
C25_ClampedIsPeak ==
    ReturnedLayer =>
        Let(LayerShape, LAMBDA g :
            \A i \in 1..N :
                (psimin[i] < lcfs /\ ~pfr[i]) =>
                    \A j \in 1..N :
                        /\ (psimin[j] < lcfs /\ ~pfr[j]) => g[j] = g[i]
                        /\ psimin[j] >= lcfs => RLe(g[j], g[i]))

\* the flux heatflux would have assigned to the points of the batch b, had b been
\* passed to updateLaminarData instead of the batch that was
FluxOfBatch(b) ==
    Let2([j \in 1..Len(b) |-> b[j][1]], [j \in 1..Len(b) |-> b[j][2]], LAMBDA ps, lc :
        Let2(getq_layer(ps, isPFR(Len(b), ps, lc, LcminRead), lqCN, S, lcfs, HFS),
             scale_layer(mpFile[TagOf(HFS)], lqCN, S, RMul(Psol, argPf), lcfs, HFS, ep),
             LAMBDA g, q0 : [j \in 1..Len(b) |-> RAdd(RMul(g[j], q0), qBG)]))

\* C29: in the Layer model the flux of a converged point depends only on its own
\* (psimin, Lc), the configuration and the equilibrium: a batch that agrees on the
\* point and differs in the other points gives the point the same flux
C29_FluxOfPointAlone ==
    ReturnedLayer =>
        \A b \in LayerBatches : \A i \in 1..N, j \in 1..Len(b) :
            (good[i] /\ b[j] = <<psimin[i], Lc[i]>>) => FluxOfBatch(b)[j] = q[i]

\* C30: the midplane trace scale_layer uses was traced for the grid of the call
\* that uses it (the same lq, S, lcfs and side), also when a result file of an
\* earlier call exists; without a result file the call fails
C30_TraceOfCurrentGrid ==
    ReturnedLayer => mpFile[TagOf(HFS)] = TraceMidplane(CalGrid(lqCN, S, lcfs, HFS))

(***************************************************************************)
(* Properties of two heat flux objects (specification SpecShared)          *)
(***************************************************************************)
\* the flux the object assigns when no other object uses its inputDir: the scale
\* comes from the trace of its own midplane grid
FluxAlone ==
    Scaled(getq_layer(psimin, pfr, lqCN, S, lcfs, HFS),
           scale_layer(TraceMidplane(CalGrid(lqCN, S, lcfs, HFS)), lqCN, S,
                       RMul(Psol, argPf), lcfs, HFS, ep))

\* C23: objects share no mutable state: whatever another object does in between,
\* a heatflux call of the Layer model gives every converged point the flux the
\* object gives it when it runs alone
C23_SameAsAlone ==
    ReturnedLayer => \A i \in 1..N : good[i] => q[i] = RAdd(FluxAlone[i], qBG)

(***************************************************************************)
(* Properties of the perturbation sources (specification SpecSup)          *)
(***************************************************************************)
\* m3dc1sup.in in inputDir supplies no source: it is missing or has no source line
NoSourceSupplied == ~supIn.found \/ SourceLines(supIn.lines) = <<>>

\* the lists hold the one default source: './C1.h5', scale 1, phase 0.0
OneDefaultSource ==
    C1Files = <<"./C1.h5">> /\ C1scales = << <<1>> >> /\ C1phases = << <<0, 0>> >>

\* C24: when m3dc1sup.in is missing or has no source line, reading it leaves
\* exactly one source with scale 1 and phase 0, and a launch with it writes a file
\* of exactly one line, which reads as that path, the scale 1 and the phase 0
C24_DefaultSource ==
    /\ (op \in {"initializePlasma3D", "readM3DC1supFile"} /\ err = "ok"
           /\ NoSourceSupplied) => OneDefaultSource
    /\ (op = "launchLaminar" /\ itt # 0 /\ OneDefaultSource) =>
           /\ Len(supFile) = 1
           /\ supFile[1][1] = "./C1.h5"
           /\ ParseFloat(supFile[1][2]) = <<1, 0>>
           /\ ParseFloat(supFile[1][3]) = <<0, 0>>

\* the tracer was launched by a driver that read a file m3dc1sup.in holding
\* comments only, and a file for the run was written
C24_Witness ==
    /\ op = "launchLaminar" /\ err = "ok"
    /\ supIn.found /\ NoSourceSupplied /\ OneDefaultSource
    /\ supFile # <<>>

\* C28: the three source lists have the same length in every state, however the
\* sources were set, and writeM3DC1supFile writes one line per source
C28_SourcesAligned ==
    /\ Len(C1Files) = Len(C1scales) /\ Len(C1scales) = Len(C1phases)
    /\ (op = "writeM3DC1supFile" /\ itt # 0) =>
           (err = "ok" /\ Len(supFile) = Len(C1Files))

(***************************************************************************)
(* Properties of the driver (specification SpecDriver)                     *)
(***************************************************************************)
\* C10: the tracer is never run with more than 20 processes, and when launchLaminar
\* has run it for a request of n processes it has run it with min(n, 20) of them: a
\* request of at most 20 is passed on unchanged
C10_WorkerCountClamped ==
    /\ mpirun.n <= 20
    /\ (op = "launchLaminar" /\ err = "ok") =>
           /\ argNproc > 20 => mpirun.n = 20
           /\ argNproc <= 20 => mpirun.n = argNproc

\* the second launch has run the tracer, for a request of 21 processes
C10_Witness ==
    /\ op = "launchLaminar" /\ err = "ok" /\ launches = 2
    /\ argNproc = 21 /\ mpirun.n = 20 /\ nproc = 20

\* a call that reads the result file lam_<tag>.dat has returned
ResultRead == op \in {"launchLaminar", "readLaminar", "copyAndRead"} /\ err = "ok"

\* C11: when launchLaminar completes normally, the external tracer has run and has
\* produced the result file lam_<tag>.dat: a tracer that is absent or that ends
\* without the file makes launchLaminar fail
C11_LaunchFailsWithoutResult ==
    (op = "launchLaminar" /\ err = "ok") => mpirun.wrote

\* C12: readLaminar(tag) fails when lam_<tag>.dat is missing; when the file exists
\* Lc is column 3 and psimin column 4 (0-indexed) of its rows, in row order
C12_ParseResult ==
    (op = "readLaminar" /\ itt # 0) =>
        IF lamFile[argTag] = <<>> THEN err # "ok"
        ELSE /\ err = "ok"
             /\ p3d_Lc = [i \in 1..Len(lamFile[argTag]) |-> lamFile[argTag][i][4]]
             /\ p3d_psimin = [i \in 1..Len(lamFile[argTag]) |-> lamFile[argTag][i][5]]

\* C13: readLaminar(tag) on a missing file lam_<tag>.dat leaves psimin, Lc, the
\* points and the boundary box as they were before the call
C13_MissingFileKeepsState ==
    [][(op' = "readLaminar" /\ lamFile[argTag'] = <<>>) =>
           UNCHANGED <<p3d_psimin, p3d_Lc, p3d_R, bb>>]_vars

\* readLaminar has looked for a result file that is missing, with a trace result,
\* points and a boundary box stored
C13_Witness ==
    /\ op = "readLaminar" /\ err = "ok" /\ lamFile[argTag] = <<>>
    /\ p3d_psimin # <<>> /\ p3d_Lc # <<>> /\ p3d_R # <<>> /\ bb # <<>>

\* C14: whenever a call has read a result file, the stored trace result has one
\* entry per point last passed to updatePoints
C14_ResultAligned ==
    (ResultRead /\ p3d_psimin # <<>>) =>
        /\ Len(p3d_psimin) = Len(p3d_R)
        /\ Len(p3d_Lc) = Len(p3d_R)

\* C16: the external tracer is only ever invoked after the control parameters and
\* the perturbation sources have been set and written, the boundary box has been
\* set and points have been loaded: it is never started with an unset boundary box
C16_TracerAfterSetup ==
    mpirun.n > 0 =>
        /\ ctlFile # <<>> /\ supFile # <<>>
        /\ mpirun.bb # <<>>
        /\ mpirun.points # <<>>

(***************************************************************************)
(* Properties of wait2finish (specification SpecWait)                      *)
(***************************************************************************)
\* C15: a wait2finish call restarts the external tracer at most once
C15_AtMostOneRestart == restarts <= 1

(***************************************************************************)
(* Properties of getq_conduct (specification SpecConduct)                  *)
(***************************************************************************)
\* C19: with T0 = 0, getq_conduct with the conductivity 2*kappa returns exactly
\* twice what it returned with kappa, for the same psi, L, mask of the private
\* flux region and ratio (twice inf is inf, twice nan is nan)
C19_LinearInKappa ==
    (op = "getq_conduct" /\ err = "ok") =>
        getq_conduct(probe.psi, 2 * probe.kappa, probe.L, probe.pfr, probe.ratio, lcfs)
            = Scaled(probe.q, Rat(2))

\* getq_conduct has returned a finite flux that is not 0 at a point of the private
\* flux region and at a point outside of it
C19_Witness ==
    /\ op = "getq_conduct" /\ err = "ok"
    /\ \E i, j \in 1..Len(probe.q) :
          /\ probe.pfr[i] /\ ~probe.pfr[j]
          /\ {probe.q[i], probe.q[j]} \cap {Zero, NaN, PosInf, NegInf} = {}

(***************************************************************************)
(* Properties of the control file (specification SpecCtl)                  *)
(***************************************************************************)
\* writeControlFile has written the file
Written == op = "writeControlFile" /\ err = "ok"

\* C17: parsing the key=value lines written by writeControlFile gives back the
\* iteration count, the response flag and the particle parameters (direction
\* sigma, charge, kinetic energy Ekin, pitch Lambda, mass) the driver holds
C17_RoundTrip ==
    Written =>
        /\ ParseInt(Value(ctlFile, "itt")) = itt
        /\ ParseInt(Value(ctlFile, "PlasmaResponse(0=no,>1=yes)")) = mafot.response
        /\ ParseInt(Value(ctlFile,
               "ParticleDirection(1=co-pass,-1=ctr-pass,0=field-lines)")) = mafot.sigma
        /\ ParseInt(Value(ctlFile, "PartileCharge(-1=electrons,>=1=ions)"))
               = mafot.charge
        /\ ParseFloat(Value(ctlFile, "Ekin[keV]")) = mafot.Ekin
        /\ ParseFloat(Value(ctlFile, "lambda")) = mafot.Lambda
        /\ ParseInt(Value(ctlFile, "Mass")) = mafot.Mass

\* a file is written whose pitch is in the exponent notation and whose direction
\* is negative
C17_Witness ==
    /\ Written
    /\ Value(ctlFile, "lambda") = <<"1", "e", "-", "0", "5">>
    /\ mafot.sigma = -1

\* C18: the control file lists its entries in a fixed order, the same for every
\* configuration: the iteration count, then the map direction, then the response
\* flag, then the field code, then the particle parameters (direction, charge,
\* kinetic energy, pitch, mass), then the constants pi and 2*pi
C18_MapDirectionBeforeResponse ==
    Written =>
        /\ Len(ctlFile) = 26
        /\ Pos(ctlFile, "itt") = 2
        /\ Pos(ctlFile, "MapDirection") = 9
        /\ Pos(ctlFile, "PlasmaResponse(0=no,>1=yes)") = 10
        /\ Pos(ctlFile,
               "Field(-3=VMEC,-2=SIESTA,-1=gfile,M3DC1:0=Eq,1=I-coil,2=both)") = 11
        /\ Pos(ctlFile, "ParticleDirection(1=co-pass,-1=ctr-pass,0=field-lines)") = 17
        /\ Pos(ctlFile, "PartileCharge(-1=electrons,>=1=ions)") = 18
        /\ Pos(ctlFile, "Ekin[keV]") = 19
        /\ Pos(ctlFile, "lambda") = 20
        /\ Pos(ctlFile, "Mass") = 21
        /\ Pos(ctlFile, "pi") = 25
        /\ Pos(ctlFile, "2*pi") = 26

\* a file is written for a backward map by a driver that read its input file
C18_Witness ==
    /\ Written
    /\ Value(ctlFile, "MapDirection") = <<"-", "1">>
    /\ itt = 20

\* C18 as stated: the iteration count, then the response flag, then the field
\* code, then the map direction, then the particle parameters, then pi and 2*pi
C18_ResponseBeforeMapDirection ==
    Written =>
        /\ Pos(ctlFile, "itt") < Pos(ctlFile, "PlasmaResponse(0=no,>1=yes)")
        /\ Pos(ctlFile, "PlasmaResponse(0=no,>1=yes)") < Pos(ctlFile,
               "Field(-3=VMEC,-2=SIESTA,-1=gfile,M3DC1:0=Eq,1=I-coil,2=both)")
        /\ Pos(ctlFile, "Field(-3=VMEC,-2=SIESTA,-1=gfile,M3DC1:0=Eq,1=I-coil,2=both)")
               < Pos(ctlFile, "MapDirection")
        /\ Pos(ctlFile, "MapDirection") < Pos(ctlFile,
               "ParticleDirection(1=co-pass,-1=ctr-pass,0=field-lines)")
        /\ Pos(ctlFile, "ParticleDirection(1=co-pass,-1=ctr-pass,0=field-lines)")
               < Pos(ctlFile, "PartileCharge(-1=electrons,>=1=ions)")
        /\ Pos(ctlFile, "PartileCharge(-1=electrons,>=1=ions)")
               < Pos(ctlFile, "Ekin[keV]")
        /\ Pos(ctlFile, "Ekin[keV]") < Pos(ctlFile, "lambda")
        /\ Pos(ctlFile, "lambda") < Pos(ctlFile, "pi")
        /\ Pos(ctlFile, "pi") < Pos(ctlFile, "2*pi")

\* C27: counting the entries of the control file from 0, createPoints is entry 12,
\* ParticleDirection entry 16, Mass entry 20 and dpinit entry 23, and the file has
\* 26 entries, whatever the configuration and the map direction
C27_EntryIndices ==
    Written =>
        /\ Len(ctlFile) = 26
        /\ Pos(ctlFile, "createPoints(0=setR,3=setpsi)") - 1 = 12
        /\ Pos(ctlFile, "ParticleDirection(1=co-pass,-1=ctr-pass,0=field-lines)") - 1 = 16
        /\ Pos(ctlFile, "Mass") - 1 = 20
        /\ Pos(ctlFile, "dpinit") - 1 = 23
        /\ \A k \in {"createPoints(0=setR,3=setpsi)",
                     "ParticleDirection(1=co-pass,-1=ctr-pass,0=field-lines)", "Mass",
                     "dpinit"} :
               Cardinality({i \in 1..Len(ctlFile) : ctlFile[i][1] = k}) = 1

\* a file is written for a forward map by a driver that read the input file with
\* 500 iterations
C27_Witness ==
    /\ Written
    /\ Value(ctlFile, "MapDirection") = <<"1">>
    /\ Value(ctlFile, "itt") = <<"5", "0", "0">>

=============================================================================
